---- MODULE Spec2Model ----
(***************************************************************************)
(* PawnForge engine orchestration (src/server.js, second revision starting *)
(* at line 386): EngineWorker (line buffer, waitFor, handshake, promise    *)
(* queue), EnginePool (round-robin acquire, evaluateMove) and the          *)
(* /api/analyze/all-moves streaming handler; LRUCache, the cache keys,     *)
(* the pool's operations as whole calls, and the parsing done by the task  *)
(* functions of evaluateMove and analyzePosition.                          *)
(*                                                                         *)
(* Granularity: one action per run of JavaScript between two suspension    *)
(* points of the event loop (an I/O callback, a timer callback, or the     *)
(* continuation of an await).                                              *)
(***************************************************************************)
EXTENDS Integers, Sequences, FiniteSets, TLC

\* ------------------------------------------------------------------ bounds
\* Number of EngineWorker processes of the pool: max(1, min(4, cpus)), here the
\* pool of a one-processor host.
PoolSize == 1
\* Pool operations submitted in one behaviour.
MaxTasks == 2
\* Output lines the engines emit in one behaviour (all workers together).
MaxLines == 3
\* Lines delivered by one stdout 'data' event.
MaxChunk == 2
\* The clock runs from 0 to MaxTime ticks.
MaxTime == 3
\* waitFor's default timeout (timeoutMs = 4000), in ticks.
WaitTimeout == 2
\* The timeout evaluateMove passes to waitFor (5000), in ticks.
MoveTimeout == 2
\* Legal moves of the explored position.
MaxMoves == 3
\* Lines the engine prints before 'bestmove' in one evaluateMove search.
MaxEvalLines == 2
\* The magnitude evaluateMove and analyzePosition give a forced mate.
MateScore == 100000
\* LRUCache.maxSize (500 in the program), in entries.
MaxSize == 2
\* LRUCache.ttlMs (one hour in the program), in ticks.
TtlTicks == 1
\* The largest pool: Math.min(4, os.cpus().length) workers.
MaxPool == 4
\* Pool operations called one after the other in one behaviour.
MaxCalls == 4
\* Characters of a caller-supplied position string.
MaxFenLen == 2
\* The largest line count (MultiPV) analyzePosition is called with.
MaxLineCount == 2
\* Lines the engine prints before 'bestmove' in one analyzePosition search.
MaxInfo == 3
\* Plies (entries of fenSequence) of a reviewed game.
MaxPlies == 3
\* Largest centipawn loss given to classify.
MaxDelta == 310
\* Moves of a game after it has followed a book line.
MaxTail == 7
\* Characters the engine writes to its standard output.
MaxOutput == 4
\* analyzePosition calls that may be in flight together.
MaxCallers == 3
\* Characters of a caller-supplied depth or line count as rendered in a key.
MaxParamLen == 3

Workers == 1..PoolSize

\* The texts of the engine's output lines that the code tells apart; "" is a
\* line that is empty after trim().
LineTexts == {"uciok", "readyok", "info", "bestmove"}
ChunkTexts == LineTexts \cup {""}

Chunks == UNION {[1..n -> ChunkTexts] : n \in 1..MaxChunk}

\* -------------------------------------------------------------- variables
VARIABLES
  now,       \* Date.now(), in ticks
  pointer,   \* EnginePool.pointer
  ready,     \* ready[w]: EngineWorker.ready
  lines,     \* lines[w]: EngineWorker.lines, each line with its arrival number
  waiters,   \* waiters[w]: EngineWorker.waiters, each waiter named by its task
  count,     \* count[w]: how many lines worker w has buffered so far (history)
  seen,      \* seen[w]: how far the engine's output got through the handshake (history)
  sent,      \* sent[w]: the commands written to worker w's stdin, with the sender
  tasks,     \* the promises returned by run(), in submission order: the worker
             \* (w), the position of the chained callback (pc: queued, uciok,
             \* readyok, body, resolved, rejected), the position in waitFor's
             \* loop (wait: none, check, parked), waitFor's deadline and timer,
             \* and history: when the current waitFor call began (start), how
             \* often it was woken (wakes), whether the task function was
             \* called (invoked), the error and where it was thrown
  matched    \* the value returned by the latest waitFor that returned, or NoLine

workerVars == <<now, pointer, ready, lines, waiters, count, seen, sent, tasks, matched>>

\* The /api/analyze/all-moves handler for one request.
VARIABLES
  spc,                 \* where the handler is: idle, awaitLegal, awaitEval,
                       \* returned (it returned), threw (its promise rejected)
  legal,               \* the array legalMoves resolved with
  loopI,                 \* the loop variable i
  rows,                \* the rows pushed so far
  written,             \* what was written to the response, in order
  headersSent,         \* res.headersSent
  ended,               \* res.end() was called
  listening,           \* the request's 'close' listener is registered
  closed,              \* the request has emitted 'close'
  clientDisconnected,  \* the handler's flag
  evalCalls,           \* the moves evaluateMove was called with (history)
  caught               \* the error the handler's catch block got, "" if none

streamVars == <<spc, legal, loopI, rows, written, headersSent, ended, listening,
                closed, clientDisconnected, evalCalls, caught>>

\* The evaluateMove task run for the handler's current move.
VARIABLES
  score,     \* the task's local 'score'
  heard,     \* how many lines the task took from waitFor in this search (history)
  last,      \* the last score the engine reported in this search, NoScore if
             \* it reported none (history)
  returned   \* for each evaluateMove that resolved: the value it resolved
             \* with, the last score reported and the lines heard (history)

evalVars == <<score, heard, last, returned>>

\* The LRUCache instance 'cache'.
VARIABLES
  cache,     \* LRUCache.cache: the Map's entries (key, value, timestamp) in
             \* the Map's iteration order, which is insertion order
  recency,   \* the keys present, least recently touched first, where a get
             \* or has that hits and a set are touches (history)
  result     \* the latest call on the cache: method, key, returned value,
             \* and, as they were when the call was made: whether the key was
             \* in the Map, with which timestamp, the Map's size, the least
             \* recently touched key and whether the key was the most
             \* recently touched one (history)

cacheVars == <<cache, recency, result>>

\* The EnginePool with its cache, called by one caller that awaits each
\* operation before the next, beside the same pool with every lookup a miss.
VARIABLES
  size,         \* EnginePool.workers.length
  queue,        \* queue[w]: EngineWorker.queue once the tasks submitted so far
                \* have settled: "fulfilled", or the error it is rejected with
  silent,       \* the positions for which the engine never prints the line
                \* that ends the search (the same ones at every call)
  acquires,     \* how many times acquire was called (history)
  lastAcquire,  \* the latest acquire: its number, counting from 0, the
                \* pointer it read and the worker it returned (history)
  lastCall,     \* the latest operation with its outcome, and its outcome in
                \* the pool whose lookups all miss (history)
  pointerU,     \* EnginePool.pointer of the pool whose lookups all miss
  queueU,       \* the workers' queues of the pool whose lookups all miss
  onlyCached    \* only analyzePosition and legalMoves were called so far (history)

poolVars == <<size, queue, silent, acquires, lastAcquire, lastCall, pointerU,
              queueU, onlyCached>>

\* The cache keys of two requests.
VARIABLES
  reqA, reqB,   \* the requests: operation, position, depth and line count
  keyA, keyB    \* the cache keys the operations build for them

keyVars == <<reqA, reqB, keyA, keyB>>

\* The task function of one analyzePosition call.
VARIABLES
  apc,        \* where the task is: idle, searching, done
  multipv,    \* the line count the call was made with
  printed,    \* the lines waitFor returned before 'bestmove', in order (history)
  infoLines,  \* the task's array 'lines'
  analysis    \* the object the task returned: topMoves and bestEvalCp

analyzeVars == <<apc, multipv, printed, infoLines, analysis>>

\* The /api/analyze/game handler for one request.
VARIABLES
  gpc,            \* where the handler is: idle, awaitPost, awaitPre, returned
  preGiven,       \* preGiven[i + 1]: preMoveSequence[i] is there (truthy);
                  \* its length is fenSequence.length
  gi,             \* the loop variable i
  evalAfterMove,  \* the local of the current iteration
  plies,          \* the array plies
  befores,        \* for each ply pushed: whether the position before the
                  \* move was analysed and the best score found (history)
  response        \* what sendJson was given: the status and the body

gameVars == <<gpc, preGiven, gi, evalAfterMove, plies, befores, response>>

\* classify on the server and in the client, applied to the same values.
VARIABLES
  classified      \* the values classified so far, each with the key the
                  \* server's classify and the client's classify returned

classVars == <<classified>>

\* detectOpening applied to the moves of one game.
VARIABLES
  moveList,       \* the argument: the SAN moves parsed from the PGN
  opening         \* what detectOpening returned

bookVars == <<moveList, opening>>

\* One session with the engine process at the other end of its pipes.
VARIABLES
  engineAt,       \* engineAt[w]: how many of the commands written to the
                  \* engine of worker w it has read
  searchFor,      \* searchFor[w]: the sender of the 'go' the engine is
                  \* searching for, -1 when it is not searching
  cause,          \* cause[w][n]: the sender of the command that the n-th
                  \* line of the engine answers (history)
  taken           \* the lines the task functions' waitFor calls returned,
                  \* each with the task that called (history)

sessionVars == <<engineAt, searchFor, cause, taken>>

\* The stdout 'data' handler, character by character.
VARIABLES
  output,         \* all the characters the engine has written (history)
  buffered        \* all the lines the handler has pushed to this.lines

chunkVars == <<output, buffered>>

\* Callers of analyzePosition that do not wait for one another.
VARIABLES
  callers,        \* callers[c]: the call of the c-th caller: its position and
                  \* key, where it is, the worker its task was given to, what
                  \* it returned, and the callers for the same key that were in
                  \* flight when it missed (history)
  finished        \* the callers whose search completed, in that order (history)

concVars == <<callers, finished>>

\* The client's explorer: the position on the board, the position each part of
\* the explorer's display was computed for (NoFen when the part is empty),
\* allMovesResultFen, and the all-moves streams opened so far.
VARIABLES
  boardFen,
  shownTable,
  shownPieces,
  shownBadges,
  allMovesResultFen,
  streams
explorerUiVars == <<boardFen, shownTable, shownPieces, shownBadges, allMovesResultFen, streams>>

\* The client's game review: gameReviewData (present = FALSE for null, else the
\* number of plies of the review), gameReviewPly, gameReviewFens, and the
\* analyses started with their PGN's number of moves.
VARIABLES
  gameReviewData,
  gameReviewPly,
  gameReviewFens,
  analyses
reviewVars == <<gameReviewData, gameReviewPly, gameReviewFens, analyses>>

vars == <<workerVars, streamVars, evalVars, cacheVars, poolVars, keyVars, analyzeVars,
          gameVars, classVars, bookVars, sessionVars, chunkVars, concVars, explorerUiVars, reviewVars>>

\* What an action of one component leaves alone.
outsideWorker == <<streamVars, evalVars, cacheVars, poolVars, keyVars, analyzeVars,
  gameVars,
  classVars,
  bookVars,
  sessionVars,
  chunkVars,
  concVars,
  explorerUiVars,
  reviewVars>>
outsideStream == <<workerVars, evalVars, cacheVars, poolVars, keyVars, analyzeVars,
  gameVars,
  classVars,
  bookVars,
  sessionVars,
  chunkVars,
  concVars,
  explorerUiVars,
  reviewVars>>
outsideExplore == <<workerVars, cacheVars, poolVars, keyVars, analyzeVars,
  gameVars,
  classVars,
  bookVars,
  sessionVars,
  chunkVars,
  concVars,
  explorerUiVars,
  reviewVars>>
outsideCache == <<streamVars, evalVars, poolVars, keyVars, analyzeVars,
  gameVars,
  classVars,
  bookVars,
  sessionVars,
  chunkVars,
  concVars,
  explorerUiVars,
  reviewVars>>
outsideAnalyze == <<workerVars, streamVars, evalVars, cacheVars, poolVars, keyVars,
  gameVars,
  classVars,
  bookVars,
  sessionVars,
  chunkVars,
  concVars,
  explorerUiVars,
  reviewVars>>
outsideGame == <<workerVars, streamVars, evalVars, cacheVars, poolVars, keyVars,
                 analyzeVars,
  classVars,
  bookVars,
  sessionVars,
  chunkVars,
  concVars,
  explorerUiVars,
  reviewVars>>
outsideClassify == <<workerVars, streamVars, evalVars, cacheVars, poolVars, keyVars,
                     analyzeVars, gameVars,
  bookVars,
  sessionVars,
  chunkVars,
  concVars,
  explorerUiVars,
  reviewVars>>
outsideBook == <<workerVars, streamVars, evalVars, cacheVars, poolVars, keyVars,
                 analyzeVars, gameVars, classVars,
  sessionVars,
  chunkVars,
  concVars,
  explorerUiVars,
  reviewVars>>
outsideSession == <<streamVars, evalVars, cacheVars, poolVars, keyVars, analyzeVars,
                    gameVars, classVars, bookVars,
  chunkVars,
  concVars,
  explorerUiVars,
  reviewVars>>
outsideChunks == <<workerVars, streamVars, evalVars, cacheVars, poolVars, keyVars,
                   analyzeVars, gameVars, classVars, bookVars, sessionVars,
  concVars,
  explorerUiVars,
  reviewVars>>
outsideConcurrent == <<streamVars, evalVars, keyVars, analyzeVars, gameVars, classVars,
                       bookVars, sessionVars, chunkVars, ready, lines, waiters, count,
                       seen, sent, tasks, matched, recency, result, size, queue, silent,
                       acquires, lastAcquire, lastCall, pointerU, queueU, onlyCached,
  explorerUiVars,
  reviewVars>>
outsideExplorerUi == <<workerVars, streamVars, evalVars, cacheVars, poolVars, keyVars,
                       analyzeVars, gameVars, classVars, bookVars, sessionVars, chunkVars,
                       concVars,
  reviewVars>>
outsideReview == <<workerVars, streamVars, evalVars, cacheVars, poolVars, keyVars,
                   analyzeVars, gameVars, classVars, bookVars, sessionVars, chunkVars,
                   concVars, explorerUiVars>>
outsidePool == <<streamVars, evalVars, keyVars, analyzeVars, gameVars, ready, lines, waiters, count,
                 seen, sent, tasks, matched, recency, result,
  classVars,
  bookVars,
  sessionVars,
  chunkVars,
  concVars,
  explorerUiVars,
  reviewVars>>
outsideKeys == <<workerVars, streamVars, evalVars, cacheVars, poolVars, analyzeVars,
  gameVars,
  classVars,
  bookVars,
  sessionVars,
  chunkVars,
  concVars,
  explorerUiVars,
  reviewVars>>

NoLine == [text |-> "", n |-> 0]

\* ------------------------------------------------------------ EngineWorker

\* EngineWorker.constructor: an empty buffer, not ready, 'uci' and 'isready'
\* already written (sender 0 is the constructor).
NewWorkerSent == <<[cmd |-> "uci", by |-> 0], [cmd |-> "isready", by |-> 0]>>

\* The predicate each waitFor call of a task is given, by the task's position.
Predicate(pc, text) ==
  CASE pc = "uciok"   -> text = "uciok"
    [] pc = "readyok" -> text = "readyok"
    [] OTHER          -> TRUE

\* The timeout each waitFor call is given, by the task's position.
TimeoutOf(pc) == IF pc = "body" THEN MoveTimeout ELSE WaitTimeout

\* this.lines.findIndex(predicate): the first index whose line satisfies the
\* predicate, 0 when there is none (JavaScript's -1).
FindIndex(buf, pc) ==
  IF \E i \in 1..Len(buf) : Predicate(pc, buf[i].text)
  THEN CHOOSE i \in 1..Len(buf) :
         /\ Predicate(pc, buf[i].text)
         /\ \A j \in 1..(i - 1) : ~Predicate(pc, buf[j].text)
  ELSE 0

\* Variant of SliceAfter: slice(idx), which keeps the matched line.
SliceAfterBug(buf, idx) == SubSeq(buf, idx, Len(buf))

\* this.lines.slice(idx + 1)
SliceAfter(buf, idx) == SubSeq(buf, idx + 1, Len(buf))

\* Variant of Deadline: the deadline computed anew in every loop iteration.
DeadlineBug(t, entering) == now + TimeoutOf(t.pc)

\* The deadline a waitFor call works with: Date.now() + timeoutMs, computed
\* once, on entry, and read in every iteration of the loop.
Deadline(t, entering) == IF entering THEN now + TimeoutOf(t.pc) ELSE t.deadline

Settled(t) == t.pc \in {"resolved", "rejected"}
Active(t) == t.pc \in {"uciok", "readyok", "body"}

TaskIds == 1..Len(tasks)

\* The task whose promise task k is chained on: the latest earlier task of the
\* same worker, 0 when k is chained on the constructor's Promise.resolve().
PrevOf(k) ==
  IF \E j \in 1..(k - 1) : tasks[j].w = tasks[k].w
  THEN CHOOSE j \in 1..(k - 1) :
         /\ tasks[j].w = tasks[k].w
         /\ \A i \in (j + 1)..(k - 1) : tasks[i].w # tasks[k].w
  ELSE 0

\* Variant of QueueFulfilled: run() calls the callback without chaining it.
QueueFulfilledBug(k) == TRUE

\* run(): this.queue.then(fn) calls fn once the promise it is chained on is
\* fulfilled ...
QueueFulfilled(k) ==
  IF PrevOf(k) = 0 THEN TRUE ELSE tasks[PrevOf(k)].pc = "resolved"

\* Variant of QueueRejected: a rejection is not passed on.
QueueRejectedBug(k) == FALSE

\* ... and, with no rejection handler, passes a rejection on without calling fn.
QueueRejected(k) ==
  IF PrevOf(k) = 0 THEN FALSE ELSE tasks[PrevOf(k)].pc = "rejected"

\* A task entering a waitFor call at position pc.
EnterWait(t, pc) ==
  LET u == [t EXCEPT !.pc = pc, !.wait = "check", !.start = now, !.timer = 0,
                     !.wakes = 0]
  IN  [u EXCEPT !.deadline = Deadline(u, TRUE)]

\* The commands evaluateMove's task writes before its first wait.
MoveCommands(k) ==
  <<[cmd |-> "setoption", by |-> k], [cmd |-> "position", by |-> k],
    [cmd |-> "go", by |-> k]>>

\* run() after ensureReady: the task function is called, writes its commands
\* and enters its first wait.
InvokeTask(t) == EnterWait([t EXCEPT !.invoked = TRUE], "body")

\* Variant of EnsureReadySkips: ensureReady without its test of this.ready.
EnsureReadySkipsBug(w) == FALSE

\* ensureReady: a ready worker skips the handshake.
EnsureReadySkips(w) == ready[w]

\* A rejected promise: the error and where it was thrown ("handshake": in
\* ensureReady, "task": in the task function, "queue": taken over from the
\* promise the task was chained on).
Reject(t, err, origin) ==
  [t EXCEPT !.pc = "rejected", !.wait = "none", !.timer = 0,
            !.err = err, !.origin = origin]

\* The lines of a chunk that are not empty after trim(), numbered by arrival.
RECURSIVE NonBlank(_)
NonBlank(chunk) ==
  IF chunk = <<>> THEN <<>>
  ELSE IF Head(chunk) = "" THEN NonBlank(Tail(chunk))
  ELSE <<Head(chunk)>> \o NonBlank(Tail(chunk))

Numbered(texts, from) ==
  [i \in 1..Len(texts) |-> [text |-> texts[i], n |-> from + i]]

TotalArrived == LET RECURSIVE Sum(_)
                    Sum(w) == IF w = 0 THEN 0 ELSE count[w] + Sum(w - 1)
                IN  Sum(PoolSize)

\* What the engine's output so far holds of the handshake: nothing, 'uciok',
\* or 'uciok' and a later 'readyok'.
RECURSIVE SeenAfter(_, _)
SeenAfter(s, texts) ==
  IF texts = <<>> THEN s
  ELSE SeenAfter(CASE s = "none" /\ Head(texts) = "uciok" -> "uciok"
                   [] s = "uciok" /\ Head(texts) = "readyok" -> "readyok"
                   [] OTHER -> s,
                 Tail(texts))

\* Variant of RemoveWaiter: the timer callback leaves the list alone.
RemoveWaiterBug(ws, k) == ws

\* Array.prototype.splice(indexOf(k), 1) on the waiter list.
RemoveWaiter(ws, k) == SelectSeq(ws, LAMBDA x : x # k)

\* ---------------------------------------------------------------- EnginePool

\* EnginePool.acquire: this.workers[this.pointer % this.workers.length]
\* (the workers array is 0-based, Workers is 1-based).
Acquire == (pointer % PoolSize) + 1

NewTask(w) ==
  [w |-> w, pc |-> "queued", wait |-> "none", deadline |-> 0, timer |-> 0,
   start |-> 0, wakes |-> 0, invoked |-> FALSE, err |-> "", origin |-> ""]

\* EnginePool.evaluateMove up to the return of run(): a worker is acquired, the
\* pointer advances, the task is chained on the worker's queue.
EvaluateMove ==
  /\ Len(tasks) < MaxTasks
  /\ tasks' = Append(tasks, NewTask(Acquire))
  /\ pointer' = pointer + 1
  /\ UNCHANGED <<now, ready, lines, waiters, count, seen, sent, matched>>

\* The callback run() chained on a fulfilled queue: ensureReady, then either the
\* task function (ready) or the first handshake wait.
Start(k) ==
  /\ tasks[k].pc = "queued"
  /\ QueueFulfilled(k)
  /\ LET t == tasks[k]
     IN  IF EnsureReadySkips(t.w)
         THEN /\ tasks' = [tasks EXCEPT ![k] = InvokeTask(t)]
              /\ sent' = [sent EXCEPT ![t.w] = @ \o MoveCommands(k)]
         ELSE /\ tasks' = [tasks EXCEPT ![k] = EnterWait(t, "uciok")]
              /\ sent' = sent
  /\ UNCHANGED <<now, pointer, ready, lines, waiters, count, seen, matched>>

\* The promise run() chained on a rejected queue: rejected with the same error,
\* the callback never called.
Propagate(k) ==
  /\ tasks[k].pc = "queued"
  /\ ~QueueFulfilled(k)
  /\ QueueRejected(k)
  /\ tasks' = [tasks EXCEPT ![k] = Reject(@, tasks[PrevOf(k)].err, "queue")]
  /\ UNCHANGED <<now, pointer, ready, lines, waiters, count, seen, sent, matched>>

\* One iteration of waitFor's loop for task k, with what the caller does when
\* waitFor returns: findIndex; on a match the line and all before it leave the
\* buffer and the caller goes on; otherwise the call throws when the deadline
\* has passed, or registers a waiter and arms a timer for the remaining time.
WaitStep(k) ==
  /\ tasks[k].wait = "check"
  /\ LET t   == tasks[k]
         w   == t.w
         idx == FindIndex(lines[w], t.pc)
         d   == Deadline(t, FALSE)
     IN  IF idx # 0
         THEN /\ matched' = lines[w][idx]
              /\ lines' = [lines EXCEPT ![w] = SliceAfter(@, idx)]
              /\ waiters' = waiters
              /\ CASE t.pc = "uciok" ->
                        /\ tasks' = [tasks EXCEPT ![k] = EnterWait(t, "readyok")]
                        /\ UNCHANGED <<ready, sent>>
                   [] t.pc = "readyok" ->
                        /\ ready' = [ready EXCEPT ![w] = TRUE]
                        /\ tasks' = [tasks EXCEPT ![k] = InvokeTask(t)]
                        /\ sent' = [sent EXCEPT ![w] = @ \o MoveCommands(k)]
                   [] OTHER ->
                        /\ tasks' = [tasks EXCEPT ![k] =
                             IF lines[w][idx].text = "bestmove"
                             THEN [t EXCEPT !.pc = "resolved", !.wait = "none"]
                             ELSE EnterWait(t, "body")]
                        /\ UNCHANGED <<ready, sent>>
         ELSE /\ UNCHANGED <<matched, lines, ready, sent>>
              /\ IF d - now <= 0
                 THEN /\ tasks' = [tasks EXCEPT ![k] =
                            Reject(t, "Engine timeout",
                                   IF t.pc = "body" THEN "task" ELSE "handshake")]
                      /\ waiters' = waiters
                 ELSE /\ tasks' = [tasks EXCEPT ![k] =
                            [t EXCEPT !.wait = "parked", !.deadline = d,
                                      !.timer = now + (d - now)]]
                      /\ waiters' = [waiters EXCEPT ![w] = Append(@, k)]
  /\ UNCHANGED <<now, pointer, count, seen>>

\* The stdout 'data' handler of worker w for one chunk: every non-empty line
\* is buffered; the first one calls every registered waiter, which clears its
\* timer and resolves its promise, and the waiter list is emptied.
Deliver(w, chunk) ==
  LET texts == NonBlank(chunk)
  IN  /\ lines' = [lines EXCEPT ![w] = @ \o Numbered(texts, count[w])]
      /\ count' = [count EXCEPT ![w] = @ + Len(texts)]
      /\ seen' = [seen EXCEPT ![w] = SeenAfter(@, texts)]
      /\ IF texts # <<>>
         THEN /\ waiters' = [waiters EXCEPT ![w] = <<>>]
              /\ tasks' = [k \in TaskIds |->
                   IF \E i \in 1..Len(waiters[w]) : waiters[w][i] = k
                   THEN [tasks[k] EXCEPT !.wait = "check", !.timer = 0,
                                         !.wakes = @ + 1]
                   ELSE tasks[k]]
         ELSE UNCHANGED <<waiters, tasks>>
      /\ UNCHANGED <<now, pointer, ready, sent, matched>>

\* A chunk of any lines, while the output is within MaxLines.
Data(w, chunk) ==
  /\ TotalArrived + Len(NonBlank(chunk)) <= MaxLines
  /\ Deliver(w, chunk)

\* The timer callback of a parked waitFor: the waiter is removed and the
\* promise rejected, which waitFor passes to its caller.
TimerFire(k) ==
  /\ tasks[k].wait = "parked"
  /\ tasks[k].timer <= now
  /\ waiters' = [waiters EXCEPT ![tasks[k].w] = RemoveWaiter(@, k)]
  /\ tasks' = [tasks EXCEPT ![k] =
       Reject(@, "Engine timeout",
              IF tasks[k].pc = "body" THEN "task" ELSE "handshake")]
  /\ UNCHANGED <<now, pointer, ready, lines, count, seen, sent, matched>>

\* A continuation that is ready to run, or a timer that is due: the event loop
\* runs these before the clock advances.
Urgent ==
  \E k \in TaskIds :
    \/ tasks[k].wait = "check"
    \/ tasks[k].pc = "queued" /\ (QueueFulfilled(k) \/ QueueRejected(k))
    \/ tasks[k].wait = "parked" /\ tasks[k].timer <= now

Tick ==
  /\ now < MaxTime
  /\ ~Urgent
  /\ now' = now + 1
  /\ UNCHANGED <<pointer, ready, lines, waiters, count, seen, sent, tasks, matched>>

InitWorker ==
  /\ now = 0
  /\ pointer = 0
  /\ ready = [w \in Workers |-> FALSE]
  /\ lines = [w \in Workers |-> <<>>]
  /\ waiters = [w \in Workers |-> <<>>]
  /\ count = [w \in Workers |-> 0]
  /\ seen = [w \in Workers |-> "none"]
  /\ sent = [w \in Workers |-> NewWorkerSent]
  /\ tasks = <<>>
  /\ matched = NoLine

Next ==
  \/ EvaluateMove /\ UNCHANGED outsideWorker
  \/ \E k \in TaskIds : Start(k) /\ UNCHANGED outsideWorker
  \/ \E k \in TaskIds : Propagate(k) /\ UNCHANGED outsideWorker
  \/ \E k \in TaskIds : WaitStep(k) /\ UNCHANGED outsideWorker
  \/ \E w \in Workers, chunk \in Chunks : Data(w, chunk) /\ UNCHANGED outsideWorker
  \/ \E k \in TaskIds : TimerFire(k) /\ UNCHANGED outsideWorker
  \/ Tick /\ UNCHANGED outsideWorker

\* ------------------------------------------ a session and its engine process
\* The engine reads the commands in the order they were written: it answers
\* 'uci' with 'uciok' and 'isready' with 'readyok', prints nothing for
\* 'setoption' and 'position', and for 'go' prints up to MaxEvalLines 'info'
\* lines and then one 'bestmove'. When it prints is not fixed.

Idle == -1

\* The engine reads its next command.
EngineReads(w) ==
  /\ searchFor[w] = Idle
  /\ engineAt[w] < Len(sent[w])
  /\ engineAt' = [engineAt EXCEPT ![w] = @ + 1]
  /\ LET c == sent[w][engineAt[w] + 1]
     IN  CASE c.cmd = "uci" ->
                /\ Deliver(w, <<"uciok">>)
                /\ cause' = [cause EXCEPT ![w] = Append(@, c.by)]
                /\ UNCHANGED searchFor
           [] c.cmd = "isready" ->
                /\ Deliver(w, <<"readyok">>)
                /\ cause' = [cause EXCEPT ![w] = Append(@, c.by)]
                /\ UNCHANGED searchFor
           [] c.cmd = "go" ->
                /\ searchFor' = [searchFor EXCEPT ![w] = c.by]
                /\ UNCHANGED <<workerVars, cause>>
           [] OTHER -> UNCHANGED <<workerVars, cause, searchFor>>
  /\ UNCHANGED taken

\* The searching engine prints a line: 'info', or 'bestmove', which ends the
\* search.
EnginePrints(w, text) ==
  /\ searchFor[w] # Idle
  /\ text = "info" =>
       Cardinality({n \in 1..Len(cause[w]) : cause[w][n] = searchFor[w]}) < MaxEvalLines
  /\ Deliver(w, <<text>>)
  /\ cause' = [cause EXCEPT ![w] = Append(@, searchFor[w])]
  /\ searchFor' = [searchFor EXCEPT ![w] = IF text = "bestmove" THEN Idle ELSE @]
  /\ UNCHANGED <<engineAt, taken>>

\* WaitStep with the line a task function was given written down.
SessionWaitStep(k) ==
  /\ WaitStep(k)
  /\ taken' = IF tasks[k].pc = "body" /\ matched' # matched
              THEN Append(taken, [n |-> matched'.n, by |-> k])
              ELSE taken
  /\ UNCHANGED <<engineAt, searchFor, cause>>

InitSession ==
  /\ engineAt = [w \in Workers |-> 0]
  /\ searchFor = [w \in Workers |-> Idle]
  /\ cause = [w \in Workers |-> <<>>]
  /\ taken = <<>>

NextSession ==
  \/ EvaluateMove /\ UNCHANGED <<sessionVars, outsideSession>>
  \/ \E k \in TaskIds : Start(k) /\ UNCHANGED <<sessionVars, outsideSession>>
  \/ \E k \in TaskIds : Propagate(k) /\ UNCHANGED <<sessionVars, outsideSession>>
  \/ \E k \in TaskIds : SessionWaitStep(k) /\ UNCHANGED outsideSession
  \/ \E w \in Workers : EngineReads(w) /\ UNCHANGED outsideSession
  \/ \E w \in Workers, text \in {"info", "bestmove"} :
       EnginePrints(w, text) /\ UNCHANGED outsideSession
  \/ \E k \in TaskIds : TimerFire(k) /\ UNCHANGED <<sessionVars, outsideSession>>
  \/ Tick /\ UNCHANGED <<sessionVars, outsideSession>>

\* ------------------------------------- the stdout handler, by the character
\* A chunk is a sequence of characters; a line is the sequence of its
\* characters.

Chars == {"a", "b", " ", "\n"}

\* String.prototype.split('\n'): the pieces between the newlines, the empty
\* ones included; cur is the piece being read.
RECURSIVE SplitFrom(_, _)
SplitFrom(chars, cur) ==
  IF chars = <<>> THEN <<cur>>
  ELSE IF Head(chars) = "\n" THEN <<cur>> \o SplitFrom(Tail(chars), <<>>)
  ELSE SplitFrom(Tail(chars), Append(cur, Head(chars)))

Split(chars) == SplitFrom(chars, <<>>)

\* String.prototype.trim()
RECURSIVE Trim(_)
Trim(piece) ==
  IF piece = <<>> THEN <<>>
  ELSE IF Head(piece) = " " THEN Trim(Tail(piece))
  ELSE IF piece[Len(piece)] = " " THEN Trim(SubSeq(piece, 1, Len(piece) - 1))
  ELSE piece

\* The lines the handler pushes for one chunk: split at the newlines, each
\* piece trimmed, the empty ones skipped.
PushedLines(chunk) ==
  LET pieces == Split(chunk)
      trimmed == [i \in 1..Len(pieces) |-> Trim(pieces[i])]
  IN  SelectSeq(trimmed, LAMBDA l : l # <<>>)

\* The 'data' event with one chunk of the engine's output.
StdoutData(chunk) ==
  /\ Len(output) + Len(chunk) <= MaxOutput
  /\ output' = output \o chunk
  /\ buffered' = buffered \o PushedLines(chunk)

InitChunks ==
  /\ output = <<>>
  /\ buffered = <<>>

NextChunks ==
  \E chunk \in UNION {[1..n -> Chars] : n \in 1..MaxOutput} :
    StdoutData(chunk) /\ UNCHANGED outsideChunks

\* The clock of a run that is followed to its end: it is read only by
\* waitFor, which works with differences, so it is advanced only while a
\* timer is armed, and then also past MaxTime.
Armed == \E k \in TaskIds : tasks[k].wait = "parked"

LiveTick ==
  /\ Armed
  /\ ~Urgent
  /\ now' = now + 1
  /\ UNCHANGED <<pointer, ready, lines, waiters, count, seen, sent, tasks, matched>>

\* What the event loop does by itself: continuations that are ready and
\* timers that are due.
LoopSteps ==
  \/ \E k \in TaskIds : Start(k) /\ UNCHANGED <<sessionVars, outsideSession>>
  \/ \E k \in TaskIds : Propagate(k) /\ UNCHANGED <<sessionVars, outsideSession>>
  \/ \E k \in TaskIds : SessionWaitStep(k) /\ UNCHANGED outsideSession
  \/ \E k \in TaskIds : TimerFire(k) /\ UNCHANGED <<sessionVars, outsideSession>>

TimePasses == LiveTick /\ UNCHANGED <<sessionVars, outsideSession>>

\* Submissions until some worker has a task queued behind another: one
\* task more than there are workers.
SubmitLive ==
  /\ Len(tasks) <= PoolSize
  /\ EvaluateMove

NextSessionLive ==
  \/ SubmitLive /\ UNCHANGED <<sessionVars, outsideSession>>
  \/ LoopSteps
  \/ \E w \in Workers : EngineReads(w) /\ UNCHANGED outsideSession
  \/ \E w \in Workers, text \in {"info", "bestmove"} :
       EnginePrints(w, text) /\ UNCHANGED outsideSession
  \/ TimePasses

\* --------------------------------------------------------------- classify

\* Variant of Classify: 150 counted as a mistake.
ClassifyBug(deltaCp) ==
  IF deltaCp <= 20 THEN "best"
  ELSE IF deltaCp <= 60 THEN "good"
  ELSE IF deltaCp < 150 THEN "inaccuracy"
  ELSE IF deltaCp <= 300 THEN "mistake"
  ELSE "blunder"

\* classify(deltaCp): the category key.
Classify(deltaCp) ==
  IF deltaCp <= 20 THEN "best"
  ELSE IF deltaCp <= 60 THEN "good"
  ELSE IF deltaCp <= 150 THEN "inaccuracy"
  ELSE IF deltaCp <= 300 THEN "mistake"
  ELSE "blunder"

\* ------------------------------------------- /api/analyze/all-moves handler
\* The pool's operations are awaited calls here: legalMoves resolves with an
\* array of moves or rejects, evaluateMove resolves with a score or rejects.

Moves == {"e2e4", "d2d4", "g1f3", "b1c3"}
Scores == {-200, 0, 30}

\* The arrays legalMoves can resolve with: distinct moves, in any order.
LegalArrays ==
  {m \in UNION {[1..n -> Moves] : n \in 0..MaxMoves} :
     \A a, b \in DOMAIN m : a # b => m[a] # m[b]}

Max(a, b) == IF a >= b THEN a ELSE b

\* Variant of Progress: i / legal.length.
ProgressBug(i, n) == <<i, n>>

\* progress: (i + 1) / legal.length, kept as numerator and denominator.
Progress(i, n) == <<i + 1, n>>

\* Variant of Stops: a loop without the test.
StopsBug(flag) == FALSE

\* The loop's test before each evaluation: if (clientDisconnected) return.
Stops(flag) == flag

\* Variant of InsertRow: the rows are left in the order they were pushed.
InsertRowBug(r, sorted) == Append(sorted, r)

\* rows.sort((a, b) => b.evalCp - a.evalCp): a stable sort, higher score first.
RECURSIVE InsertRow(_, _)
InsertRow(r, sorted) ==
  IF sorted = <<>> THEN <<r>>
  ELSE IF Head(sorted).evalCp - r.evalCp < 0
       THEN <<r>> \o sorted
       ELSE <<Head(sorted)>> \o InsertRow(r, Tail(sorted))

RECURSIVE SortRows(_)
SortRows(rs) ==
  IF rs = <<>> THEN <<>>
  ELSE InsertRow(rs[Len(rs)], SortRows(SubSeq(rs, 1, Len(rs) - 1)))

\* The 'final' event built from the rows after the loop.
FinalEvent(rs) ==
  LET sorted     == SortRows(rs)
      bestEvalCp == IF sorted = <<>> THEN 0 ELSE sorted[1].evalCp
      final      == [k \in 1..Len(sorted) |->
                       LET deltaCp == Max(0, bestEvalCp - sorted[k].evalCp)
                       IN  [uci |-> sorted[k].uci, evalCp |-> sorted[k].evalCp,
                            deltaCp |-> deltaCp, category |-> Classify(deltaCp)]]
  IN  [type |-> "final", moves |-> final, bestEvalCp |-> bestEvalCp,
       legalMoveCount |-> Len(final)]

PartialEvent(i, n, row) ==
  [type |-> "partial", progress |-> Progress(i, n), row |-> row]

\* The request reaches the handler with a FEN: the body is parsed and, when
\* the pool is enabled, legalMoves is called; otherwise the handler answers
\* 503 and returns.
AllMovesRequest ==
  /\ spc = "idle"
  /\ IF size > 0
     THEN /\ spc' = "awaitLegal"
          /\ UNCHANGED <<written, headersSent, ended>>
     ELSE /\ spc' = "returned"
          /\ headersSent' = TRUE
          /\ written' = Append(written, [type |-> "json", status |-> 503,
                                         error |-> "Stockfish unavailable."])
          /\ ended' = TRUE
  /\ UNCHANGED <<legal, loopI, rows, listening, closed, clientDisconnected,
                 evalCalls, caught>>

\* The loop from its test for iteration i on (0-based, as in the code): it
\* returns when the flag is set, calls evaluateMove for the next move, or,
\* after the last move, writes the final event and ends the response.
LoopFrom(i, rs, wr) ==
  IF i < Len(legal')
  THEN IF Stops(clientDisconnected)
       THEN /\ spc' = "returned"
            /\ written' = wr
            /\ UNCHANGED <<ended, evalCalls>>
       ELSE /\ spc' = "awaitEval"
            /\ evalCalls' = Append(evalCalls, legal'[i + 1])
            /\ written' = wr
            /\ UNCHANGED ended
  ELSE /\ spc' = "returned"
       /\ written' = Append(wr, FinalEvent(rs))
       /\ ended' = TRUE
       /\ UNCHANGED evalCalls

\* legalMoves resolved: the stream is opened, the 'close' listener registered
\* with the flag cleared, and the loop entered.
LegalResolves(moves) ==
  /\ spc = "awaitLegal"
  /\ legal' = moves
  /\ headersSent' = TRUE
  /\ listening' = TRUE
  /\ clientDisconnected' = FALSE
  /\ loopI' = 0
  /\ rows' = <<>>
  /\ LoopFrom(0, <<>>, written)
  /\ UNCHANGED <<closed, caught>>

\* sendJson(res, 500, ...) in the catch block: writeHead throws when the
\* headers are already sent, and then nothing is written and the handler's
\* promise rejects; otherwise the error is sent as the response.
Catch(err) ==
  /\ caught' = err
  /\ IF headersSent
     THEN /\ spc' = "threw"
          /\ UNCHANGED <<written, headersSent, ended>>
     ELSE /\ spc' = "returned"
          /\ headersSent' = TRUE
          /\ written' = Append(written, [type |-> "json", status |-> 500, error |-> err])
          /\ ended' = TRUE

LegalRejects(err) ==
  /\ spc = "awaitLegal"
  /\ Catch(err)
  /\ UNCHANGED <<legal, loopI, rows, listening, closed, clientDisconnected, evalCalls>>

\* evaluateMove resolved with evalCp: the row is pushed with the score
\* negated, the partial event written, and the loop goes on with i + 1.
EvalResolves(evalCp) ==
  /\ spc = "awaitEval"
  /\ LET row == [uci |-> legal[loopI + 1], evalCp |-> -evalCp]
     IN  /\ rows' = Append(rows, row)
         /\ loopI' = loopI + 1
         /\ legal' = legal
         /\ LoopFrom(loopI + 1, Append(rows, row),
                     Append(written, PartialEvent(loopI, Len(legal), row)))
  /\ UNCHANGED <<headersSent, listening, closed, clientDisconnected, caught>>

EvalRejects(err) ==
  /\ spc = "awaitEval"
  /\ Catch(err)
  /\ UNCHANGED <<legal, loopI, rows, listening, closed, clientDisconnected, evalCalls>>

\* The request emits 'close' (once); a registered listener sets the flag.
Close ==
  /\ ~closed
  /\ closed' = TRUE
  /\ clientDisconnected' = IF listening THEN TRUE ELSE clientDisconnected
  /\ UNCHANGED <<spc, legal, loopI, rows, written, headersSent, ended, listening,
                 evalCalls, caught>>

InitStream ==
  /\ spc = "idle"
  /\ legal = <<>>
  /\ loopI = 0
  /\ rows = <<>>
  /\ written = <<>>
  /\ headersSent = FALSE
  /\ ended = FALSE
  /\ listening = FALSE
  /\ closed = FALSE
  /\ clientDisconnected = FALSE
  /\ evalCalls = <<>>
  /\ caught = ""

NextStream ==
  \/ AllMovesRequest /\ UNCHANGED outsideStream
  \/ \E moves \in LegalArrays : LegalResolves(moves) /\ UNCHANGED outsideStream
  \/ LegalRejects("Engine timeout") /\ UNCHANGED outsideStream
  \/ \E evalCp \in Scores : EvalResolves(evalCp) /\ UNCHANGED outsideStream
  \/ EvalRejects("Engine timeout") /\ UNCHANGED outsideStream
  \/ Close /\ UNCHANGED outsideStream

\* -------------------------------------------- evaluateMove's score parsing
\* The task function of evaluateMove, seen from the handler that awaits it:
\* each line waitFor returns is matched against /score (cp|mate) (-?\d+)/
\* until the line that starts with 'bestmove'.

NoScore == [kind |-> "none", v |-> 0]

\* The lines an engine prints during a search, by what the regular expression
\* finds in them: a centipawn score, a mate distance, or no score.
EvalLines ==
  {[kind |-> "cp", v |-> v] : v \in {-30, 25}}
    \cup {[kind |-> "mate", v |-> v] : v \in {-1, 0, 2}}
    \cup {NoScore}

\* The positions explored here: their legal moves are the first n moves of
\* one fixed enumeration (which moves they are has no part in the scores).
ExploreArrays ==
  LET order == <<"e2e4", "d2d4", "g1f3", "b1c3">>
  IN  {SubSeq(order, 1, n) : n \in 0..MaxMoves} \cap LegalArrays

\* Variant of ParseScore: a mate distance taken as centipawns.
ParseScoreBug(old, line) == IF line.kind = "none" THEN old ELSE line.v

\* if (m) score = m[1] === 'cp' ? Number(m[2]) : Number(m[2]) > 0 ? 100000 : -100000
ParseScore(old, line) ==
  IF line.kind = "none" THEN old
  ELSE IF line.kind = "cp" THEN line.v
  ELSE IF line.v > 0 THEN MateScore ELSE -MateScore

\* waitFor returned a line that does not start with 'bestmove'.
EvalLine(line) ==
  /\ spc = "awaitEval"
  /\ heard < MaxEvalLines
  /\ score' = ParseScore(score, line)
  /\ heard' = heard + 1
  /\ last' = IF line.kind = "none" THEN last ELSE line
  /\ UNCHANGED <<returned, streamVars>>

\* waitFor returned the 'bestmove' line: the task returns score, evaluateMove
\* resolves with it and the handler goes on; the next task starts with
\* score = 0.
EvalBestmove ==
  /\ EvalResolves(score)
  /\ returned' = Append(returned, [value |-> score, last |-> last, heard |-> heard])
  /\ score' = 0
  /\ heard' = 0
  /\ last' = NoScore

InitEval ==
  /\ score = 0
  /\ heard = 0
  /\ last = NoScore
  /\ returned = <<>>

NextExplore ==
  \/ AllMovesRequest /\ UNCHANGED <<outsideExplore, evalVars>>
  \/ \E moves \in ExploreArrays : LegalResolves(moves) /\ UNCHANGED <<outsideExplore, evalVars>>
  \/ LegalRejects("Engine timeout") /\ UNCHANGED <<outsideExplore, evalVars>>
  \/ \E line \in EvalLines : EvalLine(line) /\ UNCHANGED outsideExplore
  \/ EvalBestmove /\ UNCHANGED outsideExplore
  \/ EvalRejects("Engine timeout") /\ UNCHANGED <<outsideExplore, evalVars>>
  \/ Close /\ UNCHANGED <<outsideExplore, evalVars>>

\* ---------------------------------------------------------------- LRUCache

Undefined == "undefined"
CacheKeys == {"k1", "k2", "k3", "k4"}
\* The value the program computes and stores under a key.
Computed(key) ==
  CASE key = "k1" -> "v1" [] key = "k2" -> "v2" [] key = "k3" -> "v3" [] OTHER -> "v4"

\* Map.prototype.has, get, delete and set on a Map kept as the sequence of its
\* entries in iteration order: set on a key that is present replaces the
\* value in place, set on a new key appends.
MapHas(m, key) == \E i \in 1..Len(m) : m[i].key = key
MapIndex(m, key) == CHOOSE i \in 1..Len(m) : m[i].key = key
MapGet(m, key) == m[MapIndex(m, key)]
MapDelete(m, key) ==
  IF MapHas(m, key)
  THEN SubSeq(m, 1, MapIndex(m, key) - 1) \o SubSeq(m, MapIndex(m, key) + 1, Len(m))
  ELSE m
MapSet(m, key, entry) ==
  IF MapHas(m, key)
  THEN [m EXCEPT ![MapIndex(m, key)] = [key |-> key] @@ entry]
  ELSE Append(m, [key |-> key] @@ entry)
MapKeys(m) == {m[i].key : i \in 1..Len(m)}

\* Variant of Expired: the age is compared with >=.
ExpiredBug(entry, t) == t - entry.timestamp >= TtlTicks

\* Date.now() - entry.timestamp > this.ttlMs
Expired(entry, t) == t - entry.timestamp > TtlTicks

\* Variant of Reinsert: the entry is left where it is in the Map.
ReinsertBug(m, key) == m

\* get's last statements: this.cache.delete(key); this.cache.set(key, entry).
Reinsert(m, key) ==
  MapSet(MapDelete(m, key), key,
         [value |-> MapGet(m, key).value, timestamp |-> MapGet(m, key).timestamp])

\* LRUCache.get(key) at time t: the value it returns and the Map it leaves.
GetValue(m, key, t) ==
  IF ~MapHas(m, key) THEN Undefined
  ELSE IF Expired(MapGet(m, key), t) THEN Undefined
  ELSE MapGet(m, key).value

GetMap(m, key, t) ==
  IF ~MapHas(m, key) THEN m
  ELSE IF Expired(MapGet(m, key), t) THEN MapDelete(m, key)
  ELSE Reinsert(m, key)

\* LRUCache.set(key, value) at time t: the Map it leaves.
SetMap(m, key, value, t) ==
  LET room == IF Len(m) >= MaxSize /\ ~MapHas(m, key)
              THEN MapDelete(m, m[1].key)
              ELSE m
  IN  MapSet(MapDelete(room, key), key, [value |-> value, timestamp |-> t])

\* The keys in order of their last touch after a call: a hit or a set moves
\* the key to the end, a key that left the Map leaves the order.
Touch(order, key) == SelectSeq(order, LAMBDA k : k # key) \o <<key>>
Kept(order, m) == SelectSeq(order, LAMBDA k : MapHas(m, k))

NoCall ==
  [op |-> "none", key |-> "", ret |-> Undefined, found |-> FALSE, stamp |-> -1,
   size |-> 0, lru |-> "", mru |-> FALSE]

CallRecord(op, key, ret) ==
  [op |-> op, key |-> key, ret |-> ret, found |-> MapHas(cache, key),
   stamp |-> IF MapHas(cache, key) THEN MapGet(cache, key).timestamp ELSE -1,
   size |-> Len(cache), lru |-> IF recency # <<>> THEN recency[1] ELSE "",
   mru |-> (recency # <<>> /\ recency[Len(recency)] = key)]

\* cache.get(key), and cache.has(key), which is get(key) !== undefined.
Get(op, key) ==
  /\ cache' = GetMap(cache, key, now)
  /\ result' = CallRecord(op, key,
                  IF op = "get" THEN GetValue(cache, key, now)
                  ELSE IF GetValue(cache, key, now) # Undefined THEN "true" ELSE "false")
  /\ recency' = IF GetValue(cache, key, now) # Undefined
                THEN Touch(recency, key)
                ELSE Kept(recency, cache')

\* cache.set(key, value).
Set(key, value) ==
  /\ cache' = SetMap(cache, key, value, now)
  /\ result' = CallRecord("set", key, Undefined)
  /\ recency' = Kept(Touch(recency, key), cache')

\* Time passes between two calls.
Elapse ==
  /\ Tick
  /\ result' = NoCall
  /\ UNCHANGED <<cache, recency>>

InitCache ==
  /\ cache = <<>>
  /\ recency = <<>>
  /\ result = NoCall

NextCache ==
  \/ \E key \in CacheKeys : Get("get", key) /\ UNCHANGED <<workerVars, outsideCache>>
  \/ \E key \in CacheKeys : Get("has", key) /\ UNCHANGED <<workerVars, outsideCache>>
  \/ \E key \in CacheKeys : Set(key, Computed(key)) /\ UNCHANGED <<workerVars, outsideCache>>
  \/ Elapse /\ UNCHANGED outsideCache

\* -------------------------------------------------- EnginePool operations
\* One caller that awaits each operation: an action is a whole call, from the
\* lookup to the settlement of the promise the operation returns. Strings
\* are sequences of characters.

FenA == <<"a">>
FenB == <<"b">>
PoolFens == {FenA, FenB}

\* `pos:${fen}:${depth}:${multipv}` and `moves:${fen}`, with depth and
\* multipv (multiPv here) as the template literal renders them.
PosKey(fen, depth, multiPv) ==
  <<"p", "o", "s", ":">> \o fen \o <<":">> \o depth \o <<":">> \o multiPv
MovesKey(fen) == <<"m", "o", "v", "e", "s", ":">> \o fen

\* What the task function returns for a position when the engine answers:
\* the engine prints the same lines for the same commands.
Answer(op, fen) ==
  CASE op = "analyzePosition" /\ fen = FenA -> "lines of a"
    [] op = "analyzePosition" /\ fen = FenB -> "lines of b"
    [] op = "legalMoves" /\ fen = FenA -> "moves of a"
    [] op = "legalMoves" /\ fen = FenB -> "moves of b"
    [] OTHER -> "score"

\* Variant of AcquireFrom: the pointer is advanced before it is used.
AcquireFromBug(ptr, n) == IF n = 0 THEN 0 ELSE ((ptr + 1) % n) + 1

\* acquire(): this.workers[this.pointer % this.workers.length], workers
\* numbered from 1; with no worker the index is NaN and the element
\* undefined, 0 here.
AcquireFrom(ptr, n) == IF n = 0 THEN 0 ELSE (ptr % n) + 1

\* this.enabled: the constructor makes workers exactly when it is set.
Enabled == size > 0

\* The error analyzePosition throws when the pool is not enabled, and the
\* one thrown by calling run on undefined.
Unavailable == "Stockfish is not available. Set STOCKFISH_BIN or build engine/Stockfish."
NoWorkerError == "TypeError: Cannot read properties of undefined (reading 'run')"

\* worker.run(task) on a worker whose queue is q[w]: a rejected queue rejects
\* the new promise with the same error and the task function is not called;
\* otherwise the task runs and, when the engine stays silent, waitFor
\* rejects it with 'Engine timeout'.
Runs(q, w) == IF w = 0 THEN FALSE ELSE q[w] = "fulfilled"
RunOutcome(q, w, fen, answer) ==
  IF w = 0 THEN NoWorkerError
  ELSE IF ~Runs(q, w) THEN q[w]
  ELSE IF fen \in silent THEN "Engine timeout"
  ELSE answer
RunQueue(q, w, fen) ==
  IF Runs(q, w) /\ fen \in silent THEN [q EXCEPT ![w] = "Engine timeout"] ELSE q

\* The same call on the pool whose lookups all miss.
UncachedOutcome(op, fen) ==
  RunOutcome(queueU, AcquireFrom(pointerU, size), fen, Answer(op, fen))
Uncached(op, fen) ==
  /\ pointerU' = pointerU + 1
  /\ queueU' = RunQueue(queueU, AcquireFrom(pointerU, size), fen)

\* An operation's call of acquire() and run().
AcquireAndRun(op, fen) ==
  LET w == AcquireFrom(pointer, size)
  IN  /\ pointer' = pointer + 1
      /\ acquires' = acquires + 1
      /\ lastAcquire' = [k |-> acquires, ptr |-> pointer, w |-> w]
      /\ queue' = RunQueue(queue, w, fen)

\* Variant of SetAfterAwait: the set is made whether the promise was
\* fulfilled or rejected.
SetAfterAwaitBug(m, fulfilled, key, value, t) == SetMap(m, key, value, t)

\* cache.set(key, result) after `await ...run(...)`: reached only when the
\* awaited promise is fulfilled, a rejection being thrown at the await.
SetAfterAwait(m, fulfilled, key, value, t) ==
  IF fulfilled THEN SetMap(m, key, value, t) ELSE m

\* analyzePosition and legalMoves: if (cache.has(key)) return cache.get(key),
\* the clock reading t at the get being that of the has or the next one;
\* else the task is run and its result stored.
CachedCall(op, fen, key, t) ==
  LET afterHas == GetMap(cache, key, now)
      w        == AcquireFrom(pointer, size)
  IN  /\ pointerU < MaxCalls
      /\ IF GetValue(cache, key, now) # Undefined
         THEN /\ t \in {now, now + 1}
              /\ t <= MaxTime
              /\ now' = t
              /\ cache' = GetMap(afterHas, key, t)
              /\ lastCall' = [op |-> op, fen |-> fen, hit |-> TRUE,
                              out |-> GetValue(afterHas, key, t),
                              outU |-> UncachedOutcome(op, fen)]
              /\ UNCHANGED <<pointer, queue, acquires, lastAcquire>>
         ELSE /\ t = now
              /\ now' = now
              /\ AcquireAndRun(op, fen)
              /\ cache' = SetAfterAwait(afterHas, Runs(queue, w) /\ fen \notin silent,
                                        key, Answer(op, fen), now)
              /\ lastCall' = [op |-> op, fen |-> fen, hit |-> FALSE,
                              out |-> RunOutcome(queue, w, fen, Answer(op, fen)),
                              outU |-> UncachedOutcome(op, fen)]
      /\ Uncached(op, fen)
      /\ UNCHANGED <<size, silent, onlyCached>>

\* analyzePosition: if (!this.enabled) throw, before the lookup.
AnalyzePosition(fen, depth, multiPv, t) ==
  IF Enabled
  THEN CachedCall("analyzePosition", fen, PosKey(fen, depth, multiPv), t)
  ELSE /\ t = now
       /\ lastCall' = [op |-> "analyzePosition", fen |-> fen, hit |-> FALSE,
                       out |-> Unavailable, outU |-> Unavailable]
       /\ UNCHANGED <<now, pointer, cache, size, queue, silent, acquires,
                      lastAcquire, pointerU, queueU, onlyCached>>

LegalMoves(fen, t) == CachedCall("legalMoves", fen, MovesKey(fen), t)

\* Variant of EvaluateMoveCall: the score is looked up and stored like the
\* moves of the position.
EvaluateMoveCallBug(fen) ==
  /\ CachedCall("evaluateMove", fen, MovesKey(fen), now)
  /\ lastCall'.op = "evaluateMove"

\* evaluateMove: no lookup.
EvaluateMoveCall(fen) ==
  /\ pointerU < MaxCalls
  /\ AcquireAndRun("evaluateMove", fen)
  /\ lastCall' = [op |-> "evaluateMove", fen |-> fen, hit |-> FALSE,
                  out |-> RunOutcome(queue, AcquireFrom(pointer, size), fen,
                                     Answer("evaluateMove", fen)),
                  outU |-> UncachedOutcome("evaluateMove", fen)]
  /\ Uncached("evaluateMove", fen)
  /\ onlyCached' = FALSE
  /\ UNCHANGED <<now, cache, size, silent>>

\* Time passes between two calls.
PoolTick ==
  /\ Tick
  /\ UNCHANGED <<cache, poolVars>>

NoCallYet == [op |-> "none", fen |-> <<>>, hit |-> FALSE, out |-> "", outU |-> ""]
NoAcquire == [k |-> -1, ptr |-> -1, w |-> 0]

\* new EnginePool(n), the engine available, with an engine that stays
\* silent for the positions of s.
PoolOf(n, s) ==
  /\ size = n
  /\ queue = [w \in 1..n |-> "fulfilled"]
  /\ queueU = queue
  /\ silent = s
  /\ acquires = 0
  /\ lastAcquire = NoAcquire
  /\ lastCall = NoCallYet
  /\ pointerU = 0
  /\ onlyCached = TRUE

\* The pool and the workers' state when the engine is not available: no
\* worker is made.
InitUnavailable ==
  /\ now = 0
  /\ pointer = 0
  /\ ready = <<>>
  /\ lines = <<>>
  /\ waiters = <<>>
  /\ count = <<>>
  /\ seen = <<>>
  /\ sent = <<>>
  /\ tasks = <<>>
  /\ matched = NoLine
  /\ PoolOf(0, {})

\* The pools of hosts with 1 to 4 processors, each with an engine that
\* answers every position or one that stays silent for position b.
InitPool == \E n \in 1..MaxPool, s \in {{}, {FenB}} : PoolOf(n, s)

NextPool ==
  \/ \E fen \in PoolFens, t \in 0..MaxTime :
       AnalyzePosition(fen, <<"1">>, <<"1">>, t) /\ UNCHANGED outsidePool
  \/ \E fen \in PoolFens, t \in 0..MaxTime : LegalMoves(fen, t) /\ UNCHANGED outsidePool
  \/ \E fen \in PoolFens : EvaluateMoveCall(fen) /\ UNCHANGED outsidePool
  \/ PoolTick /\ UNCHANGED <<streamVars, evalVars, keyVars, analyzeVars, gameVars, reviewVars, explorerUiVars, concVars, chunkVars, sessionVars, bookVars, classVars,
                            recency, result>>

\* The operations and the all-moves request.
NextPoolAndStream ==
  \/ NextPool
  \/ AllMovesRequest /\ UNCHANGED outsideStream
  \/ Close /\ UNCHANGED outsideStream

\* ------------------------------------------- analyzePosition, many callers
\* Each call is cut where it awaits: the lookup and acquire().run() up to
\* the await, the start of the task function when the worker's queue reaches
\* it, and the end of the search with cache.set and the return.

\* The object the task function of caller c builds: a new one per search.
ResultOf(c) ==
  CASE c = 1 -> "result of search 1"
    [] c = 2 -> "result of search 2"
    [] c = 3 -> "result of search 3"
    [] c = 4 -> "result of search 4"
    [] OTHER -> "result of a later search"

InFlight(c) == callers[c].pc \in {"queued", "running"}

\* The caller whose task the task of c is chained on, 0 when there is none.
PrevCaller(c) ==
  IF \E j \in 1..(c - 1) : callers[j].w = callers[c].w
  THEN CHOOSE j \in 1..(c - 1) :
         /\ callers[j].w = callers[c].w
         /\ \A i \in (j + 1)..(c - 1) : callers[i].w # callers[c].w
  ELSE 0

\* Variant of StoreResult: a key that is present keeps its value.
StoreResultBug(m, key, value, t) == IF MapHas(m, key) THEN m ELSE SetMap(m, key, value, t)

\* cache.set(key, result) after the await.
StoreResult(m, key, value, t) == SetMap(m, key, value, t)

\* analyzePosition up to its first await or, on a hit, its return.
CallAnalyze(fen, t) ==
  LET key      == PosKey(fen, <<"1">>, <<"1">>)
      afterHas == GetMap(cache, key, now)
      c        == Len(callers) + 1
      others   == {j \in 1..Len(callers) : InFlight(j) /\ callers[j].key = key}
  IN  /\ Len(callers) < MaxCallers
      /\ IF GetValue(cache, key, now) # Undefined
         THEN /\ t \in {now, now + 1}
              /\ t <= MaxTime
              /\ now' = t
              /\ cache' = GetMap(afterHas, key, t)
              /\ callers' = Append(callers,
                   [fen |-> fen, key |-> key, pc |-> "returned", w |-> 0, hit |-> TRUE,
                    out |-> GetValue(afterHas, key, t), with |-> {}])
              /\ UNCHANGED pointer
         ELSE /\ t = now
              /\ now' = now
              /\ cache' = afterHas
              /\ pointer' = pointer + 1
              /\ callers' = Append(callers,
                   [fen |-> fen, key |-> key, pc |-> "queued",
                    w |-> AcquireFrom(pointer, size), hit |-> FALSE,
                    out |-> "", with |-> others])
      /\ UNCHANGED finished

\* The worker's queue reaches the task of caller c: the task function is
\* called, or, behind a rejected task, the rejection is passed on.
BeginSearch(c) ==
  /\ callers[c].pc = "queued"
  /\ IF PrevCaller(c) = 0
     THEN callers' = [callers EXCEPT ![c].pc = "running"]
     ELSE /\ ~InFlight(PrevCaller(c))
          /\ callers' = IF callers[PrevCaller(c)].pc = "rejected"
                        THEN [callers EXCEPT ![c].pc = "rejected",
                                             ![c].out = callers[PrevCaller(c)].out]
                        ELSE [callers EXCEPT ![c].pc = "running"]
  /\ UNCHANGED <<now, pointer, cache, finished>>

\* The engine prints 'bestmove': the task resolves, the result is stored and
\* returned.
EndSearch(c) ==
  /\ callers[c].pc = "running"
  /\ callers[c].fen \notin silent
  /\ cache' = StoreResult(cache, callers[c].key, ResultOf(c), now)
  /\ callers' = [callers EXCEPT ![c].pc = "returned", ![c].out = ResultOf(c)]
  /\ finished' = Append(finished, c)
  /\ UNCHANGED <<now, pointer>>

\* The engine stays silent: waitFor throws and the call rejects.
SearchTimesOut(c) ==
  /\ callers[c].pc = "running"
  /\ callers[c].fen \in silent
  /\ callers' = [callers EXCEPT ![c].pc = "rejected", ![c].out = "Engine timeout"]
  /\ UNCHANGED <<now, pointer, cache, finished>>

InitConcurrent ==
  /\ callers = <<>>
  /\ finished = <<>>

NextConcurrent ==
  \/ \E fen \in PoolFens, t \in 0..MaxTime : CallAnalyze(fen, t) /\ UNCHANGED outsideConcurrent
  \/ \E c \in 1..Len(callers) : BeginSearch(c) /\ UNCHANGED outsideConcurrent
  \/ \E c \in 1..Len(callers) : EndSearch(c) /\ UNCHANGED outsideConcurrent
  \/ \E c \in 1..Len(callers) : SearchTimesOut(c) /\ UNCHANGED outsideConcurrent
  \/ Tick /\ UNCHANGED <<cache, concVars, outsideConcurrent>>

\* ------------------------------------------------------------- cache keys
\* The body of a request is parsed JSON that is not validated: fen is any
\* non-empty string, and settings.depth and settings.multiPv any value, put
\* into the key as the template literal renders it (a string as it is, a
\* number in digits).

KeyChars == {"1", ":"}
Strings(n) == UNION {[1..k -> KeyChars] : k \in 1..n}

KeyRequests ==
  {[op |-> "analyzePosition", fen |-> f, depth |-> d, multipv |-> m] :
     f \in Strings(MaxFenLen), d \in Strings(MaxParamLen), m \in Strings(1)}
  \cup {[op |-> "legalMoves", fen |-> f, depth |-> <<>>, multipv |-> <<>>] :
          f \in Strings(MaxFenLen)}

KeyOf(req) ==
  IF req.op = "analyzePosition"
  THEN PosKey(req.fen, req.depth, req.multipv)
  ELSE MovesKey(req.fen)

\* Two requests reach the pool and their keys are built.
BuildKeys ==
  /\ reqA.op = "none"
  /\ \E a \in KeyRequests, b \in KeyRequests :
       /\ reqA' = a
       /\ reqB' = b
       /\ keyA' = KeyOf(a)
       /\ keyB' = KeyOf(b)

InitKeys ==
  /\ reqA = [op |-> "none", fen |-> <<>>, depth |-> <<>>, multipv |-> <<>>]
  /\ reqB = reqA
  /\ keyA = <<>>
  /\ keyB = <<>>

NextKeys == BuildKeys /\ UNCHANGED outsideKeys

\* ------------------------------------------- analyzePosition's task function
\* The lines are kept by what the task's tests see in them: "pv" is an info
\* line with ' multipv R', ' score cp|mate V' and ' pv MOVES', "odd" an info
\* line that contains ' pv ' and ' multipv ' and does not match the regular
\* expression, "other" any other line. The engine numbers its lines from 1
\* to at most the MultiPV value it was given.

PvLines(n) ==
  {[type |-> "pv", rank |-> r, kind |-> sc[1], v |-> sc[2], pv |-> pv] :
     r \in 1..n,
     sc \in {<<"cp", 25>>, <<"cp", -30>>, <<"mate", 2>>},
     pv \in {<<"e2e4">>, <<"d2d4", "d7d5">>}}

NoPv == [rank |-> 0, kind |-> "none", v |-> 0, pv |-> <<>>]
AnalysisLines(n) ==
  PvLines(n) \cup {[type |-> "odd"] @@ NoPv, [type |-> "other"] @@ NoPv}

\* line.startsWith('info') && line.includes(' pv ') && line.includes(' multipv ')
PassesFilter(line) == line.type \in {"pv", "odd"}

\* line.match(/multipv (\d+).*score (cp|mate) (-?\d+).* pv (.+)$/)
Matches(line) == line.type = "pv"

\* The entry topById.set(mpv, ...) stores for a matching line.
EntryOf(line) ==
  [rank |-> line.rank,
   evalCp |-> IF line.kind = "cp" THEN line.v
              ELSE IF line.v > 0 THEN MateScore ELSE -MateScore,
   pv |-> line.pv,
   uci |-> line.pv[1]]

\* topById after the loop over the lines ls.
RECURSIVE TopById(_)
TopById(ls) ==
  IF ls = <<>> THEN <<>>
  ELSE LET line == ls[Len(ls)]
           m    == TopById(SubSeq(ls, 1, Len(ls) - 1))
       IN  IF Matches(line) THEN MapSet(m, line.rank, EntryOf(line)) ELSE m

\* Variant of RankOrder: the comparison the other way round.
RankOrderBug(a, b) == b.rank - a.rank

\* The sort's comparator: (a, b) => a.rank - b.rank.
RankOrder(a, b) == a.rank - b.rank

\* [...topById.values()].sort(comparator): a stable sort.
RECURSIVE InsertByRank(_, _)
InsertByRank(e, sorted) ==
  IF sorted = <<>> THEN <<e>>
  ELSE IF RankOrder(e, Head(sorted)) < 0
       THEN <<e>> \o sorted
       ELSE <<Head(sorted)>> \o InsertByRank(e, Tail(sorted))

RECURSIVE SortByRank(_)
SortByRank(es) ==
  IF es = <<>> THEN <<>>
  ELSE InsertByRank(es[Len(es)], SortByRank(SubSeq(es, 1, Len(es) - 1)))

\* The object the task returns.
AnalysisOf(ls) ==
  LET values   == [i \in 1..Len(TopById(ls)) |->
                     [rank |-> TopById(ls)[i].rank, evalCp |-> TopById(ls)[i].evalCp,
                      pv |-> TopById(ls)[i].pv, uci |-> TopById(ls)[i].uci]]
      topMoves == SortByRank(values)
  IN  [topMoves |-> topMoves,
       bestEvalCp |-> IF topMoves = <<>> THEN 0 ELSE topMoves[1].evalCp]

NoAnalysis == [topMoves |-> <<>>, bestEvalCp |-> 0]

\* The task function is called: the commands are sent with MultiPV n.
AnalyzeStart(n) ==
  /\ apc = "idle"
  /\ apc' = "searching"
  /\ multipv' = n
  /\ UNCHANGED <<printed, infoLines, analysis>>

\* waitFor returned a line that does not start with 'bestmove'.
AnalyzeLine(line) ==
  /\ apc = "searching"
  /\ Len(printed) < MaxInfo
  /\ printed' = Append(printed, line)
  /\ infoLines' = IF PassesFilter(line) THEN Append(infoLines, line) ELSE infoLines
  /\ UNCHANGED <<apc, multipv, analysis>>

\* waitFor returned the 'bestmove' line: the lines are parsed and the
\* result returned.
AnalyzeBestmove ==
  /\ apc = "searching"
  /\ apc' = "done"
  /\ analysis' = AnalysisOf(infoLines)
  /\ UNCHANGED <<multipv, printed, infoLines>>

InitAnalyze ==
  /\ apc = "idle"
  /\ multipv = 0
  /\ printed = <<>>
  /\ infoLines = <<>>
  /\ analysis = NoAnalysis

NextAnalyze ==
  \/ \E n \in 1..MaxLineCount : AnalyzeStart(n) /\ UNCHANGED outsideAnalyze
  \/ \E line \in AnalysisLines(multipv) : AnalyzeLine(line) /\ UNCHANGED outsideAnalyze
  \/ AnalyzeBestmove /\ UNCHANGED outsideAnalyze

\* ----------------------------------------------- /api/analyze/game handler
\* analyzePosition is an awaited call here: it resolves with an object whose
\* bestEvalCp is one of GameScores, or rejects. A ply is kept by its number,
\* score, delta and category (san and fen are copied from the request).

GameScores == {-50, 10, 50, 100, 260}

\* Variant of GameDelta: the scores subtracted.
GameDeltaBug(bestBeforeMove, evalAfter) == Max(0, bestBeforeMove - evalAfter)

\* deltaCp = Math.max(0, bestBeforeMove + evalAfterMove)
GameDelta(bestBeforeMove, evalAfter) == Max(0, bestBeforeMove + evalAfter)

\* Variant of IsTurningPoint: the threshold excluded.
IsTurningPointBug(p) == p.deltaCp > 150

\* The filter of turningPoints: (p) => p.deltaCp >= 150
IsTurningPoint(p) == p.deltaCp >= 150

PlyOf(i, evalCp, deltaCp) ==
  [ply |-> i + 1, evalCp |-> evalCp, deltaCp |-> deltaCp, category |-> Classify(deltaCp)]

NoBefore == [analysed |-> FALSE, cp |-> 0]
NoResponse == [status |-> 0, plyCount |-> 0, plies |-> <<>>, turningPoints |-> <<>>,
               error |-> ""]

\* The request reaches the handler: with an empty fenSequence it answers 400,
\* otherwise the loop starts with the analysis of fenSequence[0].
GameRequest(pre) ==
  /\ gpc = "idle"
  /\ preGiven' = pre
  /\ IF Len(pre) = 0
     THEN /\ gpc' = "returned"
          /\ response' = [NoResponse EXCEPT !.status = 400,
                            !.error = "fenSequence is required for game analysis."]
     ELSE /\ gpc' = "awaitPost"
          /\ UNCHANGED response
  /\ UNCHANGED <<gi, evalAfterMove, plies, befores>>

\* After plies.push in iteration i: the next iteration's analysis is
\* started, or, after the last one, the response is sent.
AfterPush(i, ps) ==
  /\ plies' = ps
  /\ gi' = i + 1
  /\ IF i + 1 < Len(preGiven)
     THEN /\ gpc' = "awaitPost"
          /\ UNCHANGED response
     ELSE /\ gpc' = "returned"
          /\ response' = [status |-> 200, plyCount |-> Len(ps), plies |-> ps,
                           turningPoints |-> SelectSeq(ps, IsTurningPoint),
                           error |-> ""]

\* Variant of NeedsBefore: every ply but the first has its position before
\* the move analysed.
NeedsBeforeBug(i, pre) == i > 0

\* if (i > 0 && preMoveSequence[i])
NeedsBefore(i, pre) == IF i > 0 THEN pre[i + 1] ELSE FALSE

\* The analysis of fenSequence[i] resolved: for i > 0 with a position before
\* the move that position is analysed next, otherwise the ply is pushed with
\* deltaCp 0.
PostResolves(cp) ==
  /\ gpc = "awaitPost"
  /\ evalAfterMove' = cp
  /\ IF NeedsBefore(gi, preGiven)
     THEN /\ gpc' = "awaitPre"
          /\ UNCHANGED <<gi, plies, befores, response>>
     ELSE /\ befores' = Append(befores, NoBefore)
          /\ AfterPush(gi, Append(plies, PlyOf(gi, cp, 0)))
  /\ UNCHANGED preGiven

\* The analysis of preMoveSequence[i] resolved.
PreResolves(cp) ==
  /\ gpc = "awaitPre"
  /\ befores' = Append(befores, [analysed |-> TRUE, cp |-> cp])
  /\ AfterPush(gi, Append(plies, PlyOf(gi, evalAfterMove, GameDelta(cp, evalAfterMove))))
  /\ UNCHANGED <<preGiven, evalAfterMove>>

\* An analysis rejected: the catch block answers 500.
GameRejects(err) ==
  /\ gpc \in {"awaitPost", "awaitPre"}
  /\ gpc' = "returned"
  /\ response' = [NoResponse EXCEPT !.status = 500, !.error = err]
  /\ UNCHANGED <<preGiven, gi, evalAfterMove, plies, befores>>

InitGame ==
  /\ gpc = "idle"
  /\ preGiven = <<>>
  /\ gi = 0
  /\ evalAfterMove = 0
  /\ plies = <<>>
  /\ befores = <<>>
  /\ response = NoResponse

NextGame ==
  \/ \E pre \in UNION {[1..n -> BOOLEAN] : n \in 0..MaxPlies} :
       GameRequest(pre) /\ UNCHANGED outsideGame
  \/ \E cp \in GameScores : PostResolves(cp) /\ UNCHANGED outsideGame
  \/ \E cp \in GameScores : PreResolves(cp) /\ UNCHANGED outsideGame
  \/ GameRejects("Engine timeout") /\ UNCHANGED outsideGame

\* ------------------------------------------------ classify, server and client

\* The client's classify(deltaCp): the category key.
ClientClassify(deltaCp) ==
  IF deltaCp <= 20 THEN "best"
  ELSE IF deltaCp <= 60 THEN "good"
  ELSE IF deltaCp <= 150 THEN "inaccuracy"
  ELSE IF deltaCp <= 300 THEN "mistake"
  ELSE "blunder"

\* One value is given to both functions.
ClassifyBoth(deltaCp) ==
  /\ Len(classified) < 2
  /\ classified' = Append(classified, [deltaCp |-> deltaCp,
                                        server |-> Classify(deltaCp),
                                        client |-> ClientClassify(deltaCp)])

InitClassify == classified = <<>>

NextClassify ==
  \E deltaCp \in 0..MaxDelta : ClassifyBoth(deltaCp) /\ UNCHANGED outsideClassify

\* ------------------------------------------------------------ opening book

openingBook ==
  <<
     [line |-> <<"e4", "e5", "Nf3", "Nc6", "Bb5">>,
      eco |-> "C60", name |-> "Ruy Lopez"],
     [line |-> <<"e4", "e5", "Nf3", "Nc6", "Bb5", "a6">>,
      eco |-> "C68", name |-> "Ruy Lopez, Exchange Variation"],
     [line |-> <<"e4", "e5", "Nf3", "Nc6", "Bc4">>,
      eco |-> "C50", name |-> "Italian Game"],
     [line |-> <<"e4", "e5", "Nf3", "Nc6", "Bc4", "Bc5">>,
      eco |-> "C50", name |-> "Giuoco Piano"],
     [line |-> <<"e4", "e5", "Nf3", "Nc6", "Bc4", "Nf6">>,
      eco |-> "C55", name |-> "Two Knights Defense"],
     [line |-> <<"e4", "e5", "Nf3", "Nc6", "d4">>,
      eco |-> "C44", name |-> "Scotch Game"],
     [line |-> <<"e4", "e5", "Nf3", "Nf6">>,
      eco |-> "C42", name |-> "Petrov Defense"],
     [line |-> <<"e4", "e5", "Nf3", "d6">>,
      eco |-> "C41", name |-> "Philidor Defense"],
     [line |-> <<"e4", "e5", "f4">>,
      eco |-> "C30", name |-> "King's Gambit"],
     [line |-> <<"e4", "e5", "Nc3">>,
      eco |-> "C25", name |-> "Vienna Game"],
     [line |-> <<"e4", "e5", "d4">>,
      eco |-> "C21", name |-> "Center Game"],
     [line |-> <<"e4", "c5">>,
      eco |-> "B20", name |-> "Sicilian Defence"],
     [line |-> <<"e4", "c5", "Nf3", "d6", "d4", "cxd4", "Nxd4", "Nf6", "Nc3">>,
      eco |-> "B90", name |-> "Sicilian Najdorf"],
     [line |-> <<"e4", "c5", "Nf3", "Nc6">>,
      eco |-> "B30", name |-> "Sicilian, Old Sicilian"],
     [line |-> <<"e4", "c5", "Nf3", "e6">>,
      eco |-> "B40", name |-> "Sicilian, French Variation"],
     [line |-> <<"e4", "c5", "c3">>,
      eco |-> "B22", name |-> "Sicilian Alapin"],
     [line |-> <<"e4", "c5", "Nf3", "d6", "d4", "cxd4", "Nxd4", "Nf6", "Nc3", "a6">>,
      eco |-> "B90", name |-> "Sicilian Najdorf"],
     [line |-> <<"e4", "c5", "Nf3", "d6", "d4", "cxd4", "Nxd4", "Nf6", "Nc3", "g6">>,
      eco |-> "B76", name |-> "Sicilian Dragon"],
     [line |-> <<"e4", "e6">>,
      eco |-> "C00", name |-> "French Defence"],
     [line |-> <<"e4", "e6", "d4", "d5">>,
      eco |-> "C00", name |-> "French Defence"],
     [line |-> <<"e4", "e6", "d4", "d5", "Nc3">>,
      eco |-> "C03", name |-> "French Tarrasch"],
     [line |-> <<"e4", "e6", "d4", "d5", "e5">>,
      eco |-> "C02", name |-> "French Advance"],
     [line |-> <<"e4", "e6", "d4", "d5", "exd5">>,
      eco |-> "C01", name |-> "French Exchange"],
     [line |-> <<"e4", "c6">>,
      eco |-> "B10", name |-> "Caro-Kann Defence"],
     [line |-> <<"e4", "c6", "d4", "d5">>,
      eco |-> "B12", name |-> "Caro-Kann Defence"],
     [line |-> <<"e4", "c6", "d4", "d5", "Nc3">>,
      eco |-> "B15", name |-> "Caro-Kann, Main Line"],
     [line |-> <<"e4", "c6", "d4", "d5", "e5">>,
      eco |-> "B12", name |-> "Caro-Kann Advance"],
     [line |-> <<"e4", "d5">>,
      eco |-> "B01", name |-> "Scandinavian Defense"],
     [line |-> <<"e4", "d5", "exd5", "Qxd5">>,
      eco |-> "B01", name |-> "Scandinavian Defense, Mieses-Kotroc"],
     [line |-> <<"e4", "d6">>,
      eco |-> "B07", name |-> "Pirc Defense"],
     [line |-> <<"e4", "g6">>,
      eco |-> "B06", name |-> "Modern Defense"],
     [line |-> <<"e4", "Nf6">>,
      eco |-> "B02", name |-> "Alekhine's Defense"],
     [line |-> <<"d4", "d5", "c4">>,
      eco |-> "D06", name |-> "Queen's Gambit"],
     [line |-> <<"d4", "d5", "c4", "e6">>,
      eco |-> "D30", name |-> "Queen's Gambit Declined"],
     [line |-> <<"d4", "d5", "c4", "dxc4">>,
      eco |-> "D20", name |-> "Queen's Gambit Accepted"],
     [line |-> <<"d4", "d5", "c4", "c6">>,
      eco |-> "D10", name |-> "Slav Defense"],
     [line |-> <<"d4", "d5", "c4", "e6", "Nc3", "Nf6", "Bg5">>,
      eco |-> "D53", name |-> "QGD, Classical"],
     [line |-> <<"d4", "d5", "c4", "e6", "Nc3", "Nf6", "Nf3">>,
      eco |-> "D37", name |-> "QGD, 3 Knights"],
     [line |-> <<"d4", "Nf6", "c4", "g6", "Nc3", "Bg7", "e4">>,
      eco |-> "E70", name |-> "King's Indian Defence"],
     [line |-> <<"d4", "Nf6", "c4", "g6">>,
      eco |-> "E60", name |-> "King's Indian Defence"],
     [line |-> <<"d4", "Nf6", "c4", "e6", "Nc3", "Bb4">>,
      eco |-> "E20", name |-> "Nimzo-Indian Defence"],
     [line |-> <<"d4", "Nf6", "c4", "e6", "Nf3", "b6">>,
      eco |-> "E10", name |-> "Queen's Indian Defence"],
     [line |-> <<"d4", "Nf6", "c4", "e6", "g3">>,
      eco |-> "E00", name |-> "Catalan Opening"],
     [line |-> <<"d4", "Nf6", "c4", "c5">>,
      eco |-> "A50", name |-> "Benoni Defense"],
     [line |-> <<"d4", "Nf6", "c4", "c5", "d5", "e6">>,
      eco |-> "A60", name |-> "Modern Benoni"],
     [line |-> <<"c4">>,
      eco |-> "A10", name |-> "English Opening"],
     [line |-> <<"c4", "e5">>,
      eco |-> "A20", name |-> "English, Reversed Sicilian"],
     [line |-> <<"c4", "Nf6">>,
      eco |-> "A15", name |-> "English, Anglo-Indian"],
     [line |-> <<"c4", "c5">>,
      eco |-> "A30", name |-> "English, Symmetrical"],
     [line |-> <<"Nf3", "d5", "c4">>,
      eco |-> "A09", name |-> "Reti Opening"],
     [line |-> <<"Nf3">>,
      eco |-> "A04", name |-> "Reti Opening"],
     [line |-> <<"d4", "Nf6", "Bf4">>,
      eco |-> "D00", name |-> "London System"],
     [line |-> <<"d4", "d5", "Bf4">>,
      eco |-> "D00", name |-> "London System"],
     [line |-> <<"d4", "Nf6", "Bg5">>,
      eco |-> "A45", name |-> "Trompowsky Attack"],
     [line |-> <<"d4", "f5">>,
      eco |-> "A80", name |-> "Dutch Defense"],
     [line |-> <<"d4", "Nf6", "c4", "g6", "Nc3", "d5">>,
      eco |-> "D80", name |-> "Grunfeld Defense"],
     [line |-> <<"f4">>,
      eco |-> "A02", name |-> "Bird's Opening"],
     [line |-> <<"d4", "d5">>,
      eco |-> "D00", name |-> "Queen's Pawn Game"],
     [line |-> <<"d4", "Nf6">>,
      eco |-> "A46", name |-> "Indian Game"]
  >>

\* item.line.every((m, i) => moveList[i] === m): every move of the line is
\* at its place in moves (a place past the end of moves holds undefined).
LineIsPrefix(line, moves) ==
  \A i \in 1..Len(line) : IF i <= Len(moves) THEN moves[i] = line[i] ELSE FALSE

\* moveList.every((m, i) => item.line[i] === m), under the test
\* item.line.length > moveList.length.
StrictlyExtends(line, moves) ==
  /\ Len(line) > Len(moves)
  /\ \A i \in 1..Len(moves) : line[i] = moves[i]

\* Variant of BestMatch: the first entry that matches.
BestMatchBug(moves) ==
  IF \E k \in 1..Len(openingBook) : LineIsPrefix(openingBook[k].line, moves)
  THEN CHOOSE k \in 1..Len(openingBook) :
         /\ LineIsPrefix(openingBook[k].line, moves)
         /\ \A j \in 1..(k - 1) : ~LineIsPrefix(openingBook[j].line, moves)
  ELSE 0

\* The loop of detectOpening from entry k on, with bestMatch (an index into
\* the book, 0 for null) and bestLength as they stand.
RECURSIVE BestMatchFrom(_, _, _, _)
BestMatchFrom(k, moves, bestMatch, bestLength) ==
  IF k > Len(openingBook) THEN bestMatch
  ELSE IF LineIsPrefix(openingBook[k].line, moves) /\ Len(openingBook[k].line) > bestLength
       THEN BestMatchFrom(k + 1, moves, k, Len(openingBook[k].line))
       ELSE BestMatchFrom(k + 1, moves, bestMatch, bestLength)

\* bestMatch after the loop.
BestMatch(moves) == BestMatchFrom(1, moves, 0, 0)

\* Variant of FindContinuations: the set seen is not consulted.
RECURSIVE FindContinuationsBugFrom(_, _, _)
FindContinuationsBugFrom(k, moves, continuations) ==
  IF k > Len(openingBook) THEN continuations
  ELSE IF StrictlyExtends(openingBook[k].line, moves)
       THEN FindContinuationsBugFrom(k + 1, moves,
              Append(continuations, [move |-> openingBook[k].line[Len(moves) + 1],
                                     name |-> openingBook[k].name,
                                     eco |-> openingBook[k].eco]))
       ELSE FindContinuationsBugFrom(k + 1, moves, continuations)

FindContinuationsBug(moves) == FindContinuationsBugFrom(1, moves, <<>>)

\* The loop of findContinuations from entry k on, with the set seen and the
\* array continuations as they stand.
RECURSIVE FindContinuationsFrom(_, _, _, _)
FindContinuationsFrom(k, moves, seenMoves, continuations) ==
  IF k > Len(openingBook) THEN continuations
  ELSE IF StrictlyExtends(openingBook[k].line, moves)
       THEN LET nextMove == openingBook[k].line[Len(moves) + 1]
            IN  IF nextMove \notin seenMoves
                THEN FindContinuationsFrom(k + 1, moves, seenMoves \cup {nextMove},
                       Append(continuations, [move |-> nextMove,
                                              name |-> openingBook[k].name,
                                              eco |-> openingBook[k].eco]))
                ELSE FindContinuationsFrom(k + 1, moves, seenMoves, continuations)
       ELSE FindContinuationsFrom(k + 1, moves, seenMoves, continuations)

FindContinuations(moves) == FindContinuationsFrom(1, moves, {}, <<>>)

Min(a, b) == IF a <= b THEN a ELSE b

\* Variant of UnknownRange: no fallback for the empty list.
UnknownRangeBug(n) == <<1, Min(8, n)>>

\* [1, Math.min(8, moveList.length || 8)]
UnknownRange(n) == <<1, Min(8, IF n = 0 THEN 8 ELSE n)>>

\* detectOpening(moveList)
DetectOpening(moves) ==
  LET bestMatch == BestMatch(moves)
  IN  IF bestMatch # 0
      THEN [eco |-> openingBook[bestMatch].eco,
            name |-> openingBook[bestMatch].name,
            bookPlyRange |-> <<1, Len(openingBook[bestMatch].line)>>,
            continuations |-> FindContinuations(moves)]
      ELSE [eco |-> "A00",
            name |-> "Uncommon Opening",
            bookPlyRange |-> UnknownRange(Len(moves)),
            continuations |-> FindContinuations(moves)]

\* The games given to detectOpening: a beginning of a book line, then up to
\* MaxTail moves, each 'a6' (a move of some book lines) or 'h3' (a move of
\* none).
TailMoves == {"a6", "h3"}
BookPrefixes ==
  UNION {{SubSeq(openingBook[k].line, 1, n) : n \in 0..Len(openingBook[k].line)} :
           k \in 1..Len(openingBook)}
MoveLists ==
  {p \o t : p \in BookPrefixes, t \in UNION {[1..n -> TailMoves] : n \in 0..MaxTail}}

NoOpening == [eco |-> "", name |-> "", bookPlyRange |-> <<0, 0>>, continuations |-> <<>>]

\* detectOpening is called with the moves of a game.
Detect ==
  /\ opening = NoOpening
  /\ \E moves \in MoveLists :
       /\ moveList' = moves
       /\ opening' = DetectOpening(moves)

InitBook ==
  /\ moveList = <<>>
  /\ opening = NoOpening

NextBook == Detect /\ UNCHANGED outsideBook

\* ---------------------------------------------------------- specifications

\* ------------------------------------------------- the client's explorer

MaxStreams == 2

\* Positions the board can show; each has legal moves.
Positions == {"position a", "position b", "position c"}

\* allMovesResultFen = null, and an empty part of the display.
NoFen == "null"

\* let allMovesResult = []; let allMovesResultFen = null; the board shows the
\* starting position and the explorer is empty.
InitExplorerUi ==
  /\ boardFen = "position a"
  /\ shownTable = NoFen
  /\ shownPieces = NoFen
  /\ shownBadges = NoFen
  /\ allMovesResultFen = NoFen
  /\ streams = <<>>

\* onDrop with a legal move: the game moves on to another position,
\* clearBoardBadges(), allMovesResult = [], allMovesResultFen = null. The
\* table and the piece badges are not touched, and no stream is closed.
OnDrop(fen) ==
  /\ fen # boardFen
  /\ boardFen' = fen
  /\ shownBadges' = NoFen
  /\ allMovesResultFen' = NoFen
  /\ UNCHANGED <<shownTable, shownPieces, streams>>

\* The loadFenBtn handler with a FEN that game.load accepts: the board shows
\* it, and board badges, piece badges, table and allMovesResult are cleared.
\* No stream is closed.
LoadFen(fen) ==
  /\ boardFen' = fen
  /\ shownBadges' = NoFen
  /\ shownPieces' = NoFen
  /\ shownTable' = NoFen
  /\ allMovesResultFen' = NoFen
  /\ UNCHANGED streams

\* runAllMoves: piece badges and table are emptied, allMovesResult is reset
\* and a stream is opened whose handlers capture currentFen = game.fen().
RunAllMoves ==
  /\ Len(streams) < MaxStreams
  /\ shownPieces' = NoFen
  /\ shownTable' = NoFen
  /\ allMovesResultFen' = NoFen
  /\ streams' = Append(streams, [currentFen |-> boardFen, open |-> TRUE])
  /\ UNCHANGED <<boardFen, shownBadges>>

\* es.onmessage with data.type === 'final': the result is stored and all
\* three parts are rendered for the captured currentFen; es.close().
StreamFinal(n) ==
  /\ n \in 1..Len(streams)
  /\ streams[n].open
  /\ allMovesResultFen' = streams[n].currentFen
  /\ shownPieces' = streams[n].currentFen
  /\ shownTable' = streams[n].currentFen
  /\ shownBadges' = streams[n].currentFen
  /\ streams' = [streams EXCEPT ![n].open = FALSE]
  /\ UNCHANGED boardFen

\* es.onerror: the table is replaced by the error text; es.close().
StreamError(n) ==
  /\ n \in 1..Len(streams)
  /\ streams[n].open
  /\ shownTable' = NoFen
  /\ streams' = [streams EXCEPT ![n].open = FALSE]
  /\ UNCHANGED <<boardFen, shownPieces, shownBadges, allMovesResultFen>>

\* The flipBtn handler: if (allMovesResult.length > 0)
\* renderBoardBadges(allMovesResult, allMovesResultFen || game.fen()).
Flip ==
  /\ allMovesResultFen # NoFen
  /\ shownBadges' = allMovesResultFen
  /\ UNCHANGED <<boardFen, shownTable, shownPieces, allMovesResultFen, streams>>

\* applyExplorerFilters: returns when allMovesResult is empty, else renders
\* the table from allMovesResult for allMovesResultFen.
ApplyExplorerFilters ==
  /\ allMovesResultFen # NoFen
  /\ shownTable' = allMovesResultFen
  /\ UNCHANGED <<boardFen, shownPieces, shownBadges, allMovesResultFen, streams>>

NextExplorerUi ==
  \/ (\E fen \in Positions : OnDrop(fen)) /\ UNCHANGED outsideExplorerUi
  \/ (\E fen \in Positions : LoadFen(fen)) /\ UNCHANGED outsideExplorerUi
  \/ RunAllMoves /\ UNCHANGED outsideExplorerUi
  \/ (\E n \in 1..MaxStreams : StreamFinal(n)) /\ UNCHANGED outsideExplorerUi
  \/ (\E n \in 1..MaxStreams : StreamError(n)) /\ UNCHANGED outsideExplorerUi
  \/ Flip /\ UNCHANGED outsideExplorerUi
  \/ ApplyExplorerFilters /\ UNCHANGED outsideExplorerUi

\* --------------------------------------------- the client's game review

MaxGamePlies == 3
MaxAnalyses == 2

\* let gameReviewData = null
NoReviewData == [present |-> FALSE, plies |-> 0]

\* let gameReviewPly = -1: no ply selected.
NoPly == -1

\* let gameReviewData = null; let gameReviewPly = -1; let gameReviewFens = [].
InitReview ==
  /\ gameReviewData = NoReviewData
  /\ gameReviewPly = NoPly
  /\ gameReviewFens = <<>>
  /\ analyses = <<>>

\* analyzeGame up to its await, for a PGN of n >= 1 moves: gameReviewFens is
\* replaced by the n positions of this game and the request is posted.
AnalyzeGame(n) ==
  /\ Len(analyses) < MaxAnalyses
  /\ gameReviewFens' = [i \in 1..n |-> <<n, i>>]
  /\ analyses' = Append(analyses, [moves |-> n, pending |-> TRUE])
  /\ UNCHANGED <<gameReviewData, gameReviewPly>>

\* postJson resolved: gameReviewData = data, a review with one ply per
\* position sent. gameReviewPly is not assigned.
AnalyzeGameResolves(a) ==
  /\ a \in 1..Len(analyses)
  /\ analyses[a].pending
  /\ gameReviewData' = [present |-> TRUE, plies |-> analyses[a].moves]
  /\ analyses' = [analyses EXCEPT ![a].pending = FALSE]
  /\ UNCHANGED <<gameReviewPly, gameReviewFens>>

\* postJson rejected: the catch block shows the error and keeps the review.
AnalyzeGameFails(a) ==
  /\ a \in 1..Len(analyses)
  /\ analyses[a].pending
  /\ analyses' = [analyses EXCEPT ![a].pending = FALSE]
  /\ UNCHANGED <<gameReviewData, gameReviewPly, gameReviewFens>>

\* navigateToGamePly(ply), ply counted from 0.
NavigateToGamePly(ply) ==
  /\ gameReviewPly' =
       IF ~gameReviewData.present \/ ply < 0 \/ ply >= gameReviewData.plies
         THEN gameReviewPly
         ELSE ply
  /\ UNCHANGED <<gameReviewData, gameReviewFens, analyses>>

\* navFirst, and the Home key when a review is present.
NavFirst == NavigateToGamePly(0)

\* navPrev, and the ArrowLeft key when a review is present.
NavPrev == NavigateToGamePly(Max(0, gameReviewPly - 1))

\* navNext and the ArrowRight key: if (gameReviewData) navigateToGamePly(
\* Math.min(gameReviewData.plies.length - 1, gameReviewPly + 1)).
NavNext ==
  /\ gameReviewData.present
  /\ NavigateToGamePly(Min(gameReviewData.plies - 1, gameReviewPly + 1))

\* navLast and the End key.
NavLast ==
  /\ gameReviewData.present
  /\ NavigateToGamePly(gameReviewData.plies - 1)

\* A click on the eval graph or on a move of the rendered move list: a ply of
\* the current review.
ClickPly(ply) ==
  /\ gameReviewData.present
  /\ ply \in 0..(gameReviewData.plies - 1)
  /\ NavigateToGamePly(ply)

NextReview ==
  \/ (\E n \in 1..MaxGamePlies : AnalyzeGame(n)) /\ UNCHANGED outsideReview
  \/ (\E a \in 1..MaxAnalyses : AnalyzeGameResolves(a)) /\ UNCHANGED outsideReview
  \/ (\E a \in 1..MaxAnalyses : AnalyzeGameFails(a)) /\ UNCHANGED outsideReview
  \/ NavFirst /\ UNCHANGED outsideReview
  \/ NavPrev /\ UNCHANGED outsideReview
  \/ NavNext /\ UNCHANGED outsideReview
  \/ NavLast /\ UNCHANGED outsideReview
  \/ (\E ply \in 0..MaxGamePlies : ClickPly(ply)) /\ UNCHANGED outsideReview

InitRest ==
  InitWorker /\ InitStream /\ InitEval /\ InitCache /\ InitKeys /\ InitAnalyze
    /\ InitGame /\ InitReview /\ InitExplorerUi /\ InitConcurrent /\ InitChunks /\ InitSession /\ InitBook /\ InitClassify

Init == InitRest /\ PoolOf(PoolSize, {})

InitAnyPool == InitRest /\ InitPool

\* The client's explorer under drops, FEN loads, all-moves runs and their
\* stream events.
SpecExplorerUi == Init /\ [][NextExplorerUi]_vars

\* The client's game review under analyses and navigation.
SpecReview == Init /\ [][NextReview]_vars

\* The worker pool under arbitrary engine output and submissions.
Spec == Init /\ [][Next]_vars

\* One all-moves request.
SpecStream == Init /\ [][NextStream]_vars

\* One all-moves request with the engine's output during each evaluateMove.
SpecExplore == Init /\ [][NextExplore]_vars

\* The cache under arbitrary calls of get, has and set as time passes.
SpecCache == Init /\ [][NextCache]_vars

\* The pool's operations called one after the other as time passes.
SpecPool == InitAnyPool /\ [][NextPool]_vars

\* The pool's operations and the all-moves request when the engine is not
\* available.
InitNoEngine ==
  InitUnavailable /\ InitStream /\ InitEval /\ InitCache /\ InitKeys /\ InitAnalyze
    /\ InitGame /\ InitReview /\ InitExplorerUi /\ InitConcurrent /\ InitChunks /\ InitSession /\ InitBook /\ InitClassify

SpecUnavailable == InitNoEngine /\ [][NextPoolAndStream]_vars

\* classify applied to any two values.
SpecClassify == Init /\ [][NextClassify]_vars

\* A session whose engine answers the commands it is sent.
SpecSession == Init /\ [][NextSession]_vars

\* The engine's output arriving in chunks of any lengths.
SpecChunks == Init /\ [][NextChunks]_vars

\* Callers of analyzePosition that overlap, on pools of 1 to MaxPool workers.
SpecConcurrent == InitAnyPool /\ [][NextConcurrent]_vars

\* The same session followed to the end of its runs: the event loop runs
\* what is ready and time passes; the engine owes nothing.
SpecSessionLive ==
  Init /\ [][NextSessionLive]_vars /\ WF_vars(LoopSteps) /\ WF_vars(TimePasses)

\* detectOpening on one game.
SpecBook == Init /\ [][NextBook]_vars

\* One game review request.
SpecGame == Init /\ [][NextGame]_vars

\* The keys of any two requests.
SpecKeys == Init /\ [][NextKeys]_vars

\* One analyzePosition search under arbitrary engine output.
SpecAnalyze == Init /\ [][NextAnalyze]_vars

\* ------------------------------------------------------ claims: EngineWorker

SameWorkerBefore(k) == {j \in 1..(k - 1) : tasks[j].w = tasks[k].w}

\* C1: on one worker the tasks run one at a time in submission order: a task
\* whose callback has started (it is in the handshake, or its function was
\* called) has every earlier-submitted task of that worker settled, at most one
\* task per worker is between its start and its settlement, and the commands
\* written to a worker appear in the submission order of their senders.
C1_OneAtATimeInOrder ==
  /\ \A k \in TaskIds :
       (Active(tasks[k]) \/ tasks[k].invoked) =>
         \A j \in SameWorkerBefore(k) : Settled(tasks[j])
  /\ \A w \in Workers :
       Cardinality({k \in TaskIds : tasks[k].w = w /\ Active(tasks[k])}) <= 1
  /\ \A w \in Workers : \A i, j \in 1..Len(sent[w]) :
       i < j => sent[w][i].by <= sent[w][j].by

\* C1 witness: a second task is in its exchange on a worker whose first task
\* ran its own exchange and settled.
C1_Witness ==
  \E k \in TaskIds :
    /\ tasks[k].pc = "body"
    /\ \E j \in SameWorkerBefore(k) : tasks[j].invoked /\ tasks[j].pc = "resolved"

\* C2 (the claim as stated): after a task whose function threw, every later
\* task of the worker that has settled had its function called and did not
\* take over the earlier task's failure.
C2_LaterTasksAttempted ==
  \A k \in TaskIds : \A j \in SameWorkerBefore(k) :
    (tasks[j].pc = "rejected" /\ tasks[j].origin = "task" /\ Settled(tasks[k]))
      => (tasks[k].invoked /\ tasks[k].origin # "queue")

\* A worker whose handshake failed: ensureReady threw in one of its tasks.
HandshakeFailed(w) ==
  \E j \in TaskIds : tasks[j].w = w /\ tasks[j].origin = "handshake"

\* C3 (the claim as stated): once a worker's handshake has failed, no later
\* operation is given that worker by acquire.
C3_FailedSessionNotAcquired ==
  [][\A w \in Workers :
       (HandshakeFailed(w) /\ Len(tasks') > Len(tasks))
         => tasks'[Len(tasks')].w # w]_vars

\* C4: a waitFor call is never pending after its deadline (the time of the
\* call plus its timeout), however often arriving lines wake it, no timer is
\* armed beyond that deadline, and a call that ends without a line ends with
\* the engine-timeout error. A call that neither times out nor returns before
\* the deadline would be pending after it.
C4_WaitForBounded ==
  \A k \in TaskIds :
    /\ tasks[k].wait \in {"check", "parked"} =>
         now <= tasks[k].start + TimeoutOf(tasks[k].pc)
    /\ tasks[k].wait = "parked" =>
         tasks[k].timer <= tasks[k].start + TimeoutOf(tasks[k].pc)
    /\ tasks[k].origin \in {"handshake", "task"} => tasks[k].err = "Engine timeout"

\* C4 witness: a waitFor call timed out at its deadline after non-matching
\* lines had woken it twice.
C4_Witness ==
  \E k \in TaskIds :
    /\ tasks[k].pc = "rejected"
    /\ tasks[k].err = "Engine timeout"
    /\ tasks[k].origin = "handshake"
    /\ tasks[k].wakes >= 2
    /\ lines[tasks[k].w] # <<>>

\* The earliest line of buf that satisfies the predicate of position pc.
IsEarliestMatch(buf, pc, m) ==
  \E i \in 1..Len(buf) :
    /\ buf[i] = m
    /\ Predicate(pc, m.text)
    /\ \A j \in 1..(i - 1) : ~Predicate(pc, buf[j].text)

\* The buffer holds the lines numbered from..to, in order.
HoldsArrivals(buf, from, to) ==
  /\ Len(buf) = IF to >= from THEN to - from + 1 ELSE 0
  /\ \A i \in 1..Len(buf) : buf[i].n = from + i - 1

\* C5: when waitFor returns (the buffer changes although no line arrived),
\* the returned line is the earliest buffered line satisfying the caller's
\* predicate, the lines left are those of the buffer that came after it, in
\* order, and these are all the lines that arrived after it.
C5_ConsumesUpToMatch ==
  [][\A w \in Workers :
       (lines'[w] # lines[w] /\ count'[w] = count[w]) =>
         /\ \E k \in TaskIds :
              /\ tasks[k].w = w
              /\ tasks[k].wait = "check"
              /\ IsEarliestMatch(lines[w], tasks[k].pc, matched')
         /\ lines'[w] = SelectSeq(lines[w], LAMBDA l : l.n > matched'.n)
         /\ HoldsArrivals(lines'[w], matched'.n + 1, count'[w])]_vars

\* C5 witness: waitFor returned 'uciok', dropping a line that came before it
\* and leaving the line that came after it.
C5_Witness ==
  \E w \in Workers :
    /\ matched.text = "uciok"
    /\ matched.n >= 2
    /\ lines[w] # <<>>
    /\ lines[w][1].n = matched.n + 1

\* C6: a task function is called only on a worker that is ready and whose
\* engine has emitted 'uciok' and after it 'readyok'; and on a ready worker no
\* task waits for a handshake line.
C6_HandshakeBeforeTasks ==
  \A k \in TaskIds :
    /\ tasks[k].invoked =>
         ready[tasks[k].w] /\ seen[tasks[k].w] = "readyok"
    /\ tasks[k].pc \in {"uciok", "readyok"} => ~ready[tasks[k].w]

\* C6 witness: the first task went through the handshake and ran, and a later
\* task of the same worker was called at the time it started.
C6_Witness ==
  \E k \in TaskIds :
    /\ tasks[k].invoked
    /\ tasks[k].start > 0
    /\ \E j \in SameWorkerBefore(k) : tasks[j].invoked /\ seen[tasks[j].w] = "readyok"

\* ------------------------------------------------- claims: all-moves stream

\* C7: once the handler's cancellation flag is set, evaluateMove is not called
\* again for the request.
C7_NoEvaluationAfterCancel ==
  [][clientDisconnected => evalCalls' = evalCalls]_vars

\* C7 witness: the request was cancelled during an evaluation, that evaluation
\* completed, and the handler returned with moves left unevaluated.
C7_Witness ==
  /\ spc = "returned"
  /\ clientDisconnected
  /\ evalCalls # <<>>
  /\ Len(rows) = Len(evalCalls)
  /\ Len(evalCalls) < Len(legal)

\* C8 (the claim as stated): once the cancellation flag is set, nothing more
\* is written to the response: no partial and no final event.
C8_NothingWrittenAfterCancel ==
  [][clientDisconnected => written' = written]_vars

IsErrorEvent(e) == e.type \in {"error", "json"}

\* C9 (the claim as stated): when evaluateMove has failed on an open stream
\* and the handler is done, the response holds exactly one error event, as
\* its last event, and is ended.
C9_FailureEndsStreamWithError ==
  (caught # "" /\ evalCalls # <<>> /\ spc \in {"returned", "threw"}) =>
    /\ ended
    /\ written # <<>>
    /\ IsErrorEvent(written[Len(written)])
    /\ Cardinality({e \in 1..Len(written) : IsErrorEvent(written[e])}) = 1

\* a/b < c/d for positive denominators.
FractionLess(p, q) == p[1] * q[2] < q[1] * p[2]

\* C10: a request that ran to its end with no failure and no cancellation
\* wrote, for N legal moves, N partial events, the i-th with the i-th legal
\* move and progress i/N (counting from 1: strictly increasing, the last
\* equal to 1), then one final event with N moves sorted by descending score
\* whose first entry has delta 0, and nothing else; with N = 0 only the final
\* event, with no moves.
C10_StreamShape ==
  (spc = "returned" /\ ~closed /\ caught = "") =>
    LET N == Len(legal)
    IN  /\ ended
        /\ Len(written) = N + 1
        /\ \A e \in 1..N :
             /\ written[e].type = "partial"
             /\ written[e].row.uci = legal[e]
             /\ written[e].progress = <<e, N>>
        /\ \A e \in 1..(N - 1) :
             FractionLess(written[e].progress, written[e + 1].progress)
        /\ N > 0 => written[N].progress[1] = written[N].progress[2]
        /\ written[N + 1].type = "final"
        /\ Len(written[N + 1].moves) = N
        /\ written[N + 1].legalMoveCount = N
        /\ \A a, b \in 1..N :
             a < b => written[N + 1].moves[a].evalCp >= written[N + 1].moves[b].evalCp
        /\ N > 0 => written[N + 1].moves[1].deltaCp = 0

\* C10 witness: a completed stream of at least two moves whose final list is
\* in another order than the partial events.
C10_Witness ==
  /\ spc = "returned"
  /\ ~closed
  /\ caught = ""
  /\ Len(legal) >= 2
  /\ rows[1].evalCp < rows[2].evalCp
  /\ written[Len(written)].type = "final"
  /\ written[Len(written)].moves[1].uci # rows[1].uci

\* The (move, score) pairs of a sequence of rows or of final entries.
Pair(e) == <<e.uci, e.evalCp>>

\* How often the pair p occurs in the sequence s of rows.
Occurs(p, s) == Cardinality({i \in 1..Len(s) : Pair(s[i]) = p})

\* The rows carried by the partial events written so far, in order.
PartialRows ==
  LET idx == {e \in 1..Len(written) : written[e].type = "partial"}
  IN  [j \in 1..Cardinality(idx) |->
         written[CHOOSE e \in idx : Cardinality({d \in idx : d <= e}) = j].row]

\* C11: the list of a written final event is a permutation of the (move,
\* score) rows of the partial events written before it; with bestScore the
\* maximum score of the list, every entry has delta = max(0, bestScore - score),
\* which is never negative, and category = classify(delta), and an entry has
\* delta 0 exactly when its score is bestScore.
C11_FinalIsClassifiedPermutation ==
  \A e \in 1..Len(written) :
    written[e].type = "final" =>
      LET list == written[e].moves
          best == CHOOSE s \in {list[i].evalCp : i \in 1..Len(list)} :
                    \A i \in 1..Len(list) : s >= list[i].evalCp
      IN  /\ e = Len(written)
          /\ Len(list) = Len(PartialRows)
          /\ \A i \in 1..Len(list) : Occurs(Pair(list[i]), list) = Occurs(Pair(list[i]), PartialRows)
          /\ \A i \in 1..Len(list) :
               /\ list[i].deltaCp >= 0
               /\ list[i].deltaCp = (IF best - list[i].evalCp > 0 THEN best - list[i].evalCp ELSE 0)
               /\ list[i].category = Classify(list[i].deltaCp)
               /\ (list[i].deltaCp = 0) <=> (list[i].evalCp = best)

\* C11 witness: a final event whose first partial row is not the best one,
\* with entries of three different scores and classified positive deltas.
C11_Witness ==
  /\ written # <<>>
  /\ written[Len(written)].type = "final"
  /\ Len(written[Len(written)].moves) = 3
  /\ rows[1].evalCp < rows[2].evalCp
  /\ written[Len(written)].moves[2].deltaCp = 200
  /\ written[Len(written)].moves[2].category = "mistake"
  /\ written[Len(written)].moves[3].deltaCp = 230

\* ------------------------------------------------- claims: scores and signs

\* The score a reported (kind, v) stands for: centipawns, or the mate value
\* with the sign of the side that mates (the side to move is mated at 0).
ScoreValue(s) ==
  IF s.kind = "cp" THEN s.v ELSE IF s.v > 0 THEN MateScore ELSE -MateScore

\* C12 (the claim as stated): every evaluateMove that resolved after the
\* engine reported a score resolved with the negation of the last score
\* reported for the post-move position.
C12_EvaluateMoveNegates ==
  \A i \in 1..Len(returned) :
    returned[i].last # NoScore => returned[i].value = -ScoreValue(returned[i].last)

\* C13: the score of the j-th partial event, and of the final event's entry
\* for the j-th legal move, is minus the last score the engine reported in
\* the search after that move (when it reported one).
C13_EventScoresNegated ==
  \A e \in 1..Len(written) :
    /\ written[e].type = "partial" =>
         /\ e <= Len(returned)
         /\ returned[e].last # NoScore =>
              written[e].row.evalCp = -ScoreValue(returned[e].last)
    /\ written[e].type = "final" =>
         \A i \in 1..Len(written[e].moves) :
           \E j \in 1..Len(returned) :
             /\ legal[j] = written[e].moves[i].uci
             /\ returned[j].last # NoScore =>
                  written[e].moves[i].evalCp = -ScoreValue(returned[j].last)

\* C13 witness: a final event after a search that reported two scores, the
\* last of them -30 centipawns, and a search that reported the side to move
\* mated: the entries carry 30 and the mate value for the mover.
C13_Witness ==
  /\ written # <<>>
  /\ written[Len(written)].type = "final"
  /\ \E j \in 1..Len(returned) :
       /\ returned[j].heard = 2
       /\ returned[j].last = [kind |-> "cp", v |-> -30]
       /\ written[j].row.evalCp = 30
  /\ \E j \in 1..Len(returned) :
       /\ returned[j].last = [kind |-> "mate", v |-> 0]
       /\ written[Len(written)].moves[1].uci = legal[j]
       /\ written[Len(written)].moves[1].evalCp = MateScore

\* ---------------------------------------------------------- claims: LRUCache

\* C14: the cache never holds more than maxSize entries, and a set of a key
\* that is not in a full cache leaves it full, with that key in and exactly
\* one entry out: the one least recently touched, a get or has that hits and
\* a set being the touches; the keys present are always those of the touch
\* order.
C14_EvictsLeastRecentlyTouched ==
  [][/\ Len(cache') <= MaxSize
     /\ MapKeys(cache') = {recency'[i] : i \in 1..Len(recency')}
     /\ (result'.op = "set" /\ ~MapHas(cache, result'.key) /\ Len(cache) = MaxSize) =>
          /\ Len(cache') = MaxSize
          /\ MapKeys(cache') = (MapKeys(cache) \ {recency[1]}) \cup {result'.key}]_vars

\* C14 witness: a new key was set into a full cache at a time when the least
\* recently touched key was not the first one inserted: that key is gone,
\* and an entry inserted before it is still there.
C14_Witness ==
  /\ result.op = "set"
  /\ ~result.found
  /\ result.size = MaxSize
  /\ Len(cache) = MaxSize
  /\ ~MapHas(cache, result.lru)
  /\ cache[Len(cache)].key = result.key
  /\ cache[1].timestamp = 0
  /\ cache[Len(cache)].timestamp > 1
  /\ recency[1] = cache[1].key

\* C15: a get (or has) for a key whose entry was inserted longer ago than the
\* TTL returns absent and removes the entry, also when the key is the most
\* recently touched one; a get that hits returns the value, makes the key
\* the most recently touched one and leaves the entry's timestamp as it was.
C15_TtlCountsFromInsertion ==
  [][(result'.op \in {"get", "has"} /\ MapHas(cache, result'.key)) =>
       LET key   == result'.key
           entry == MapGet(cache, key)
       IN  IF now - entry.timestamp > TtlTicks
           THEN /\ result'.ret \in {Undefined, "false"}
                /\ ~MapHas(cache', key)
           ELSE /\ result'.ret \in {entry.value, "true"}
                /\ MapHas(cache', key)
                /\ MapGet(cache', key).timestamp = entry.timestamp
                /\ recency'[Len(recency')] = key]_vars

\* C15 witness: a get returned absent for a key that was in the Map and was
\* the most recently touched one although another entry was inserted after
\* it (it had been touched by a get since), and the entry is gone.
C15_Witness ==
  /\ result.op = "get"
  /\ result.found
  /\ result.mru
  /\ result.ret = Undefined
  /\ ~MapHas(cache, result.key)
  /\ \E i \in 1..Len(cache) : cache[i].timestamp > result.stamp

\* -------------------------------------------------------- claims: EnginePool

\* C16 (the claim as stated): in a sequence of analyzePosition and legalMoves
\* calls on an engine that prints the same output for the same commands,
\* every call has the same outcome (the same value or the same error) as the
\* same call on the pool whose lookups all miss.
C16_CacheIsPureOptimization ==
  (onlyCached /\ lastCall.op # "none") => lastCall.out = lastCall.outU

\* C20: the k-th call of acquire, counting from 0, reads the pointer value k
\* (so no two calls read the same value) and returns worker k mod N of the
\* N workers (numbered from 1 here).
C20_RoundRobin ==
  lastAcquire # NoAcquire =>
    /\ lastAcquire.k = acquires - 1
    /\ lastAcquire.ptr = lastAcquire.k
    /\ lastAcquire.w = (lastAcquire.k % size) + 1
    /\ pointer = acquires

\* C20 witness: in a pool of two workers the third acquire returned the
\* first worker again, after a call that was served by the cache.
C20_Witness ==
  /\ size = 2
  /\ lastAcquire = [k |-> 2, ptr |-> 2, w |-> 1]
  /\ pointerU > acquires

\* C17 (the claim as stated): two requests that differ in operation,
\* position, depth or line count never have the same cache key.
C17_KeysInjective ==
  reqA # reqB => keyA # keyB

\* --------------------------------------------------- claims: analyzePosition

\* The last line printed with rank r that the task parses.
LastWithRank(r) ==
  printed[CHOOSE i \in 1..Len(printed) :
            /\ printed[i].type = "pv" /\ printed[i].rank = r
            /\ \A j \in (i + 1)..Len(printed) :
                 ~(printed[j].type = "pv" /\ printed[j].rank = r)]

\* C18: a completed analyzePosition returns one line for each rank the
\* engine reported before the terminal line and no other, in ascending order
\* of rank; the line returned for a rank is the last one reported with that
\* rank (its score, its moves, its first move), and the best score returned
\* is the score of the first, lowest-ranked line.
C18_LinesUniqueSortedLastWins ==
  apc = "done" =>
    LET top == analysis.topMoves
    IN  /\ \A a, b \in 1..Len(top) : a < b => top[a].rank < top[b].rank
        /\ {top[a].rank : a \in 1..Len(top)} =
             {printed[i].rank : i \in {j \in 1..Len(printed) : printed[j].type = "pv"}}
        /\ \A a \in 1..Len(top) :
             LET line == LastWithRank(top[a].rank)
             IN  /\ top[a].evalCp = ScoreValue([kind |-> line.kind, v |-> line.v])
                 /\ top[a].pv = line.pv
                 /\ top[a].uci = Head(line.pv)
        /\ top # <<>> => analysis.bestEvalCp = top[1].evalCp

\* C18 witness: the engine reported rank 2 before rank 1 and then rank 1
\* again with another score, and the result holds rank 1 with the later
\* score, then rank 2.
C18_Witness ==
  /\ apc = "done"
  /\ Len(printed) = 3
  /\ printed[1].rank = 2
  /\ printed[2].rank = 1
  /\ printed[3].rank = 1
  /\ printed[2].v # printed[3].v
  /\ printed[3].kind = "mate"
  /\ Len(analysis.topMoves) = 2
  /\ analysis.bestEvalCp = MateScore

\* C19 (the claim as stated): a completed analyzePosition returns lines
\* whose ranks are 1, 2, ..., lineCount.
C19_RanksContiguous ==
  apc = "done" =>
    /\ Len(analysis.topMoves) = multipv
    /\ \A a \in 1..Len(analysis.topMoves) : analysis.topMoves[a].rank = a

\* -------------------------------------------------- claims: engine unavailable

\* C21 (the claim as stated): with no worker, every operation called fails
\* with the engine-unavailable error, the all-moves request is answered with
\* the unavailable error and nothing else, no command is sent, and the cache
\* and the round-robin pointer stay as they were.
C21_UnavailableFailsClean ==
  ~Enabled =>
    /\ lastCall.op # "none" => lastCall.out = Unavailable
    /\ spc # "idle" =>
         /\ spc = "returned"
         /\ Len(written) = 1
         /\ written[1].type = "json"
         /\ written[1].error = "Stockfish unavailable."
         /\ evalCalls = <<>>
    /\ sent = <<>>
    /\ cache = <<>>
    /\ pointer = 0

\* ------------------------------------------------------ claims: game review

\* C22: in a review that was answered, the first ply has delta 0 whatever
\* its score, and every later ply whose position before the move was given
\* has delta = max(0, evalBefore + evalAfter), with evalAfter the ply's own
\* score (before 50 and after -50 give 0, before 50 and after 10 give 60).
C22_DeltaIsBeforePlusAfter ==
  /\ Len(befores) = Len(plies)
  /\ \A i \in 1..Len(plies) :
       /\ plies[i].ply = i
       /\ i = 1 => plies[i].deltaCp = 0
       /\ (i > 1 /\ preGiven[i]) =>
            /\ befores[i].analysed
            /\ plies[i].deltaCp =
                 (IF befores[i].cp + plies[i].evalCp > 0
                  THEN befores[i].cp + plies[i].evalCp ELSE 0)
            /\ (befores[i].cp = 50 /\ plies[i].evalCp = -50) => plies[i].deltaCp = 0
            /\ (befores[i].cp = 50 /\ plies[i].evalCp = 10) => plies[i].deltaCp = 60

\* C22 witness: an answered review whose first ply has a score of 100 and
\* delta 0, whose second ply has before 50 and after -50, and whose third
\* has before 50 and after 10.
C22_Witness ==
  /\ response.status = 200
  /\ Len(plies) = 3
  /\ plies[1].evalCp = 100
  /\ befores[2] = [analysed |-> TRUE, cp |-> 50]
  /\ plies[2].evalCp = -50
  /\ befores[3] = [analysed |-> TRUE, cp |-> 50]
  /\ plies[3].evalCp = 10
  /\ plies[3].deltaCp = 60

\* C23: the turning points of an answered review are the plies with delta
\* >= 150 and no others, in ply order, each with the delta and the category
\* of the ply itself, the category being classify(delta).
C23_TurningPointsByDelta ==
  response.status = 200 =>
    LET tp == response.turningPoints
        ps == response.plies
    IN  /\ \A a, b \in 1..Len(tp) : a < b => tp[a].ply < tp[b].ply
        /\ \A a \in 1..Len(tp) :
             /\ tp[a].ply \in 1..Len(ps)
             /\ tp[a] = ps[tp[a].ply]
             /\ tp[a].deltaCp >= 150
        /\ \A i \in 1..Len(ps) :
             /\ ps[i].category = Classify(ps[i].deltaCp)
             /\ ps[i].deltaCp >= 150 => \E a \in 1..Len(tp) : tp[a].ply = i

\* C23 witness: an answered review of three plies whose second and third
\* plies are turning points, one with delta exactly 150.
C23_Witness ==
  /\ response.status = 200
  /\ Len(response.plies) = 3
  /\ Len(response.turningPoints) = 2
  /\ response.turningPoints[1].deltaCp = 150
  /\ response.turningPoints[2].deltaCp > 300

\* C24 (the claim as stated): every turning point of an answered review has
\* the category mistake or blunder.
C24_TurningPointsAreMistakes ==
  response.status = 200 =>
    \A a \in 1..Len(response.turningPoints) :
      response.turningPoints[a].category \in {"mistake", "blunder"}

\* --------------------------------------------------------- claims: classify

Categories == <<"best", "good", "inaccuracy", "mistake", "blunder">>
CategoryRank(key) == CHOOSE r \in 1..Len(Categories) : Categories[r] = key

\* C25: classify gives every delta >= 0 one of the five categories, by the
\* intervals 0..20 best, 21..60 good, 61..150 inaccuracy, 151..300 mistake,
\* 301 and above blunder; a larger delta never gets a milder category; and
\* the client's classify returns the server's key.
C25_ClassifyIsStepFunction ==
  /\ \A i \in 1..Len(classified) :
       LET c == classified[i]
       IN  /\ \E r \in 1..Len(Categories) : Categories[r] = c.server
           /\ c.server = "best" <=> c.deltaCp <= 20
           /\ c.server = "good" <=> c.deltaCp \in 21..60
           /\ c.server = "inaccuracy" <=> c.deltaCp \in 61..150
           /\ c.server = "mistake" <=> c.deltaCp \in 151..300
           /\ c.server = "blunder" <=> c.deltaCp >= 301
           /\ c.client = c.server
  /\ \A i, j \in 1..Len(classified) :
       classified[i].deltaCp <= classified[j].deltaCp =>
         CategoryRank(classified[i].server) <= CategoryRank(classified[j].server)

\* C25 witness: the two sides of a threshold, 150 an inaccuracy and 151 a
\* mistake, on the server and in the client.
C25_Witness ==
  /\ Len(classified) = 2
  /\ classified[1] = [deltaCp |-> 150, server |-> "inaccuracy", client |-> "inaccuracy"]
  /\ classified[2] = [deltaCp |-> 151, server |-> "mistake", client |-> "mistake"]

\* ----------------------------------------------------- claims: opening book

Matching(moves) == {k \in 1..Len(openingBook) : LineIsPrefix(openingBook[k].line, moves)}
Extending(moves) == {k \in 1..Len(openingBook) : StrictlyExtends(openingBook[k].line, moves)}
NextMoveOf(k, moves) == openingBook[k].line[Len(moves) + 1]

\* C26: when some book line is a prefix of (or equal to) the moves,
\* detectOpening returns the code and name of an entry with the longest such
\* line, the first of them in the book, and the range [1, length of that
\* line], which is at most the number of moves.
C26_LongestPrefixWins ==
  (opening # NoOpening /\ Matching(moveList) # {}) =>
    \E k \in Matching(moveList) :
      /\ \A j \in Matching(moveList) :
           /\ Len(openingBook[j].line) <= Len(openingBook[k].line)
           /\ Len(openingBook[j].line) = Len(openingBook[k].line) => k <= j
      /\ opening.eco = openingBook[k].eco
      /\ opening.name = openingBook[k].name
      /\ opening.bookPlyRange = <<1, Len(openingBook[k].line)>>
      /\ Len(openingBook[k].line) <= Len(moveList)

\* C26 witness: 1.e4 e5 2.Nf3 Nc6 3.Bc4 Nf6 h3 has the Italian Game and the
\* Two Knights Defense as prefixes; the longer one is returned.
C26_Witness ==
  /\ moveList = <<"e4", "e5", "Nf3", "Nc6", "Bc4", "Nf6", "h3">>
  /\ Cardinality(Matching(moveList)) = 2
  /\ opening.eco = "C55"
  /\ opening.name = "Two Knights Defense"
  /\ opening.bookPlyRange = <<1, 6>>

\* C27: the continuations are one candidate per distinct next move of the
\* book lines that strictly extend the moves, ordered by the first entry
\* with that next move and carrying that entry's name and code; their moves
\* are pairwise distinct, and there is none when no line extends the moves.
C27_ContinuationsDistinctInBookOrder ==
  opening # NoOpening =>
    LET cs == opening.continuations
        ext == Extending(moveList)
        First(m) == CHOOSE k \in ext :
                      /\ NextMoveOf(k, moveList) = m
                      /\ \A j \in ext : NextMoveOf(j, moveList) = m => k <= j
    IN  /\ Len(cs) = Cardinality({NextMoveOf(k, moveList) : k \in ext})
        /\ \A a \in 1..Len(cs) :
             /\ \E k \in ext : NextMoveOf(k, moveList) = cs[a].move
             /\ cs[a].name = openingBook[First(cs[a].move)].name
             /\ cs[a].eco = openingBook[First(cs[a].move)].eco
        /\ \A a, b \in 1..Len(cs) :
             /\ a # b => cs[a].move # cs[b].move
             /\ a < b => First(cs[a].move) < First(cs[b].move)
        /\ ext = {} => cs = <<>>

\* C27 witness: after 1.e4 e5 2.Nf3 Nc6 six lines go on, with the three next
\* moves Bb5, Bc4 and d4.
C27_Witness ==
  /\ moveList = <<"e4", "e5", "Nf3", "Nc6">>
  /\ Cardinality(Extending(moveList)) = 6
  /\ opening.continuations =
       << [move |-> "Bb5", name |-> "Ruy Lopez", eco |-> "C60"],
          [move |-> "Bc4", name |-> "Italian Game", eco |-> "C50"],
          [move |-> "d4", name |-> "Scotch Game", eco |-> "C44"] >>

\* C28: when no book line is a prefix of the moves, detectOpening returns
\* the code 'A00' with the range [1, min(8, n)] for n >= 1 moves and [1, 8]
\* for no moves.
C28_UnknownOpening ==
  (opening # NoOpening /\ Matching(moveList) = {}) =>
    /\ opening.eco = "A00"
    /\ Len(moveList) >= 1 =>
         opening.bookPlyRange = <<1, IF Len(moveList) < 8 THEN Len(moveList) ELSE 8>>
    /\ Len(moveList) = 0 => opening.bookPlyRange = <<1, 8>>

\* C28 witness: the empty game is answered with 'A00' and the range [1, 8].
C28_Witness ==
  /\ opening # NoOpening
  /\ moveList = <<>>
  /\ opening.eco = "A00"
  /\ opening.bookPlyRange = <<1, 8>>

\* ---------------------------------------------- claims: a session's lines

\* C29: every line a task function's waitFor returned was printed by the
\* engine for a command that this task wrote: never for the constructor's
\* commands, an earlier task's or a later task's.
C29_TasksConsumeOwnLines ==
  \A i \in 1..Len(taken) :
    LET k == taken[i].by
    IN  /\ taken[i].n \in 1..Len(cause[tasks[k].w])
        /\ cause[tasks[k].w][taken[i].n] = k

\* C29 witness: two tasks of one session have both finished, and each was
\* given an 'info' line and the 'bestmove' of its own search.
C29_Witness ==
  /\ Len(tasks) = 2
  /\ tasks[1].w = tasks[2].w
  /\ tasks[1].pc = "resolved"
  /\ tasks[2].pc = "resolved"
  /\ \A k \in 1..2 : Cardinality({i \in 1..Len(taken) : taken[i].by = k}) >= 1
  /\ Len(taken) >= 3

\* -------------------------------------------------- claims: chunked output

\* C30 (the claim as stated): once the engine's output ends with a newline,
\* the lines buffered are the whole output split at the newlines, trimmed,
\* the empty lines dropped, however the output was cut into chunks.
C30_ChunkingInvisible ==
  (output # <<>> /\ output[Len(output)] = "\n") => buffered = PushedLines(output)

\* ------------------------------------------------ claims: concurrent misses

LastFinishedFor(key) ==
  LET own == SelectSeq(finished, LAMBDA c : callers[c].key = key)
  IN  IF own = <<>> THEN 0 ELSE own[Len(own)]

\* C31: a caller that missed while another search for its key was queued or
\* running gets the result of a search of its own, never the other's; and
\* the entry of a key holds the result of the search for it that completed
\* last.
C31_MissesNotCoalesced ==
  /\ \A c \in 1..Len(callers) :
       (callers[c].with # {} /\ callers[c].pc = "returned") =>
         /\ callers[c].out = ResultOf(c)
         /\ \A j \in callers[c].with : callers[j].pc = "returned" => callers[j].out = ResultOf(j)
  /\ \A i \in 1..Len(cache) :
       /\ LastFinishedFor(cache[i].key) # 0
       /\ cache[i].value = ResultOf(LastFinishedFor(cache[i].key))

\* C31 witness: two searches for one key were in flight at once on two
\* workers, both callers have their own result, the first caller's search
\* completed last and its result is the one in the cache.
C31_Witness ==
  /\ Len(callers) >= 2
  /\ callers[1].key = callers[2].key
  /\ 1 \in callers[2].with
  /\ callers[1].pc = "returned" /\ callers[1].out = ResultOf(1)
  /\ callers[2].pc = "returned" /\ callers[2].out = ResultOf(2)
  /\ finished = <<2, 1>>
  /\ MapHas(cache, callers[1].key)
  /\ MapGet(cache, callers[1].key).value = ResultOf(1)

\* ------------------------------------------- claims: disconnect before the loop

\* C32 (the claim as stated): when the request has emitted 'close' while
\* legalMoves is still pending, no evaluateMove is called for the request.
C32_EarlyDisconnectHonoured ==
  [][(closed /\ spc = "awaitLegal") => evalCalls' = evalCalls]_vars

\* ----------------------------------------------- claims: the pool's cache use

Errors == {"Engine timeout", NoWorkerError, Unavailable}

\* The entries of the Map a get at time t would still return, in order.
Live(m, t) == SelectSeq(m, LAMBDA e : ~Expired(e, t))

\* C33: an analyzePosition or legalMoves call that fails leaves the cache
\* as it was, the entries past their TTL (absent for every reader) aside:
\* the same keys with the same values and timestamps in the same order,
\* and no entry holds an error.
C33_FailedCallLeavesCache ==
  [][(pointerU' # pointerU
      /\ lastCall'.op \in {"analyzePosition", "legalMoves"}
      /\ lastCall'.out \in Errors) =>
       /\ Live(cache', now') = Live(cache, now)
       /\ \A i \in 1..Len(cache') : cache'[i].value \notin Errors]_vars

\* C33 witness: a call for a position the engine answers failed behind a
\* search that had timed out, with an entry in the cache and none for the
\* call's position.
C33_Witness ==
  /\ lastCall.op = "legalMoves"
  /\ lastCall.fen = FenA
  /\ lastCall.out = "Engine timeout"
  /\ ~lastCall.hit
  /\ Len(cache) >= 1
  /\ ~MapHas(cache, MovesKey(FenA))

\* C34: a call that is served by the cache calls neither acquire nor run:
\* the pointer, the number of acquires and every worker's queue are as
\* before; an evaluateMove call leaves the cache and the clock as they were,
\* is never a hit, and makes exactly one acquire, which returns a worker
\* and advances the pointer by one.
C34_HitTouchesNoSession ==
  [][(pointerU' # pointerU) =>
       /\ lastCall'.hit =>
            /\ lastCall'.op \in {"analyzePosition", "legalMoves"}
            /\ pointer' = pointer
            /\ acquires' = acquires
            /\ lastAcquire' = lastAcquire
            /\ queue' = queue
       /\ lastCall'.op = "evaluateMove" =>
            /\ ~lastCall'.hit
            /\ cache' = cache
            /\ now' = now
            /\ acquires' = acquires + 1
            /\ pointer' = pointer + 1
            /\ lastAcquire'.k = acquires
            /\ lastAcquire'.w \in 1..size]_vars

\* C34 witness: after a call that was served by the cache (the pointer is
\* behind that of the pool without cache), evaluateMove ran on a position
\* whose moves are in the cache and was given a worker.
C34_Witness ==
  /\ lastCall.op = "evaluateMove"
  /\ pointer < pointerU
  /\ MapHas(cache, MovesKey(lastCall.fen))
  /\ lastAcquire.k = acquires - 1
  /\ lastAcquire.w # 0

\* C35 (the claim as stated): a call whose has(key) succeeded returns the
\* cached value, never the absent value, whatever the clock reads at the
\* get that follows.
C35_HitReturnsValue ==
  (lastCall.op \in {"analyzePosition", "legalMoves"} /\ lastCall.hit) =>
    lastCall.out # Undefined

\* ------------------------------------------------------ claims: termination

\* C36: every task given to run() is eventually settled, resolved or
\* rejected, whether the engine goes on to the line that ends the search or
\* falls silent at any point, and whatever became of the tasks before it:
\* at any time, a time comes at which all the tasks submitted until then
\* are settled.
C36_EveryTaskSettles == []<>(\A k \in TaskIds : Settled(tasks[k]))

\* C36 witness: a task timed out on a silent engine and the task queued
\* behind it was rejected with the same error without being run.
C36_Witness ==
  /\ Len(tasks) >= 2
  /\ tasks[1].pc = "rejected"
  /\ tasks[1].err = "Engine timeout"
  /\ tasks[2].pc = "rejected"
  /\ tasks[2].origin = "queue"
  /\ ~tasks[2].invoked

\* ---------------------------------------------------------- claims: waiters

ParkedOn(w) == {k \in TaskIds : tasks[k].w = w /\ tasks[k].wait = "parked"}

\* C37: the waiter list of a session holds exactly the waitFor calls that
\* are suspended on it, each once, and a timer is live only for such a
\* call: a session with no waitFor call pending has no waiter, and a call
\* that returned or threw has left neither waiter nor timer.
C37_WaitersDoNotLeak ==
  /\ \A w \in Workers :
       /\ {waiters[w][i] : i \in 1..Len(waiters[w])} = ParkedOn(w)
       /\ Len(waiters[w]) = Cardinality(ParkedOn(w))
       /\ (\A k \in TaskIds : tasks[k].w = w => ~Active(tasks[k])) => waiters[w] = <<>>
  /\ \A k \in TaskIds :
       /\ tasks[k].timer # 0 => tasks[k].wait = "parked"
       /\ Settled(tasks[k]) => tasks[k].timer = 0 /\ tasks[k].wait = "none"

\* C37 witness: a waitFor call was woken by a line that did not match,
\* suspended again and timed out; no waiter and no timer is left.
C37_Witness ==
  /\ \E k \in TaskIds :
       /\ tasks[k].pc = "rejected"
       /\ tasks[k].origin \in {"handshake", "task"}
       /\ tasks[k].wakes >= 1
       /\ tasks[k].start < now
  /\ \A w \in Workers : waiters[w] = <<>>
  /\ \A k \in TaskIds : tasks[k].timer = 0

\* ------------------------------------------ claims: missing before-position

\* C38: a ply after the first for which the request has no position before
\* the move has delta 0 and the category best, and that position was not
\* analysed; an answered review has one ply per entry of fenSequence,
\* numbered 1..n in that order.
C38_MissingBeforeGivesBest ==
  /\ \A i \in 1..Len(plies) :
       (i > 1 /\ ~preGiven[i]) =>
         /\ plies[i].deltaCp = 0
         /\ plies[i].category = "best"
         /\ ~befores[i].analysed
  /\ response.status = 200 =>
       /\ response.plyCount = Len(preGiven)
       /\ Len(response.plies) = Len(preGiven)
       /\ \A i \in 1..Len(response.plies) : response.plies[i].ply = i

\* C38 witness: an answered review of three plies, the second without a
\* position before the move and with a score of 260 (delta 0, best), the
\* third with one and with a loss.
C38_Witness ==
  /\ response.status = 200
  /\ Len(plies) = 3
  /\ ~preGiven[2]
  /\ plies[2].evalCp = 260
  /\ plies[2].category = "best"
  /\ preGiven[3]
  /\ plies[3].deltaCp >= 150

\* ------------------------------------------------ claims: explorer display

\* C39: each part of the explorer's display (table, piece badges, board
\* badges) is either empty or was computed for the position on the board.
C39_NoStaleExplorerResults ==
  /\ shownTable \in {NoFen, boardFen}
  /\ shownPieces \in {NoFen, boardFen}
  /\ shownBadges \in {NoFen, boardFen}

\* --------------------------------------------- claims: review navigation

\* C40: whenever review data is present, gameReviewPly is -1 or an index of
\* the current review's plies.
C40_PlyIndexValid ==
  gameReviewData.present =>
    \/ gameReviewPly = NoPly
    \/ gameReviewPly \in 0..(gameReviewData.plies - 1)

====
